---- MODULE Spec2Model ----
(***************************************************************************)
(* pawlette: the state engine (SelectiveThemeManager, a bare git           *)
(* repository whose work-tree is the XDG config root) and the theme        *)
(* installer.  Strings the code inspects character by character (paths,    *)
(* ignore patterns, archive member names) are sequences of one-character   *)
(* strings; a path is a sequence of such components.                       *)
(***************************************************************************)
EXTENDS Integers, Sequences, FiniteSets, TLC

VARIABLES
    commits,          \* git objects: <<[parent, subject, tree]>>, a commit's id is its index
    branches,         \* refs/heads: branch name -> commit id
    head,             \* the branch HEAD points at
    index,            \* git index: path -> content (Absent: not tracked)
    worktree,         \* XDG_CONFIG_HOME: path -> content (Absent: no such file)
    versionFile,      \* <state>/<theme>.version: theme -> version ("" : no file)
    themesFolder,     \* THEMES_FOLDER/<theme>: [exists, files]
    installed_themes, \* installed_themes.json: theme -> [present, version, source]
    outsideWrites,    \* absolute paths the installer wrote outside any theme's own directory
    now,              \* wall clock, in seconds
    last,             \* the operation that ran last: [op, arg, outcome, head0, saved]
    trip,             \* progress through "apply A; edit F; apply B; apply A" (phases
                      \* 1 to 4); phase 5: the last step repeated the install before it
    steps,            \* how many operations have run
    target_file,      \* text of a file PatchEngine writes to, as a token sequence
    patch_content,    \* the patch payloads: [pre, post], token sequences
    original,         \* target_file before the first patch was applied
    patched,          \* theme -> how many times its patch was applied to target_file
    entries,          \* an unpacked theme directory: <<[kind, archive_mode, mode]>>
    response,         \* what the two theme lists answered: [official, community], each [ok, lines]
    remote_themes,    \* the last fetch_remote_themes: [outcome, themes: name -> [name, url, source]]
    src_dir,          \* one directory of a theme's configs: item name -> [kind, data]
    dst_dir,          \* the directory it is merged into: file name -> content
    journal,          \* what the last _merge_and_patch did, step by step
    query,            \* the path _is_file_ignored was last asked about, relative to the config dir
    verdict           \* its answer, the patterns that matched, and what git's exclude rules say

vars == <<commits, branches, head, index, worktree, versionFile, themesFolder,
          installed_themes, outsideWrites, now, last, trip, steps,
          target_file, patch_content, original, patched,
          entries, response, remote_themes,
          src_dir, dst_dir, journal, query, verdict>>

patchVars == <<target_file, patch_content, original, patched>>

installerVars == <<entries, response, remote_themes>>

mergeVars == <<src_dir, dst_dir, journal>>

ignoreVars == <<query, verdict>>

engineVars == <<commits, branches, head, index, worktree, versionFile, themesFolder,
                installed_themes, outsideWrites, now, last, trip, steps>>

-----------------------------------------------------------------------------
(* Bounds of the model. *)

MaxSteps == 8
MaxTime == 1

-----------------------------------------------------------------------------
(* Character strings. *)

S_kitty == <<"k", "i", "t", "t", "y">>
S_kconf == <<"k", ".", "c", "o", "n", "f">>
S_kconf_postpaw == S_kconf \o <<".", "p", "o", "s", "t", "p", "a", "w">>
S_cache == <<"c", "a", "c", "h", "e">>
S_data == <<"d", "a", "t", "a">>
S_configs == <<"c", "o", "n", "f", "i", "g", "s">>
S_gtk3 == <<"g", "t", "k", "-", "3", ".", "0">>
S_settings_ini == <<"s", "e", "t", "t", "i", "n", "g", "s", ".", "i", "n", "i">>
S_gtk_theme == <<"g", "t", "k", "-", "t", "h", "e", "m", "e">>
S_gtk_css == <<"g", "t", "k", ".", "c", "s", "s">>
S_mozilla == <<"m", "o", "z", "i", "l", "l", "a">>
S_ds_store == <<".", "D", "S", "_", "S", "t", "o", "r", "e">>
S_xlog == <<"x", ".", "l", "o", "g">>

RECURSIVE Join(_, _)
Join(parts, sep) ==
    IF parts = <<>> THEN <<>>
    ELSE IF Len(parts) = 1 THEN parts[1]
    ELSE parts[1] \o sep \o Join(Tail(parts), sep)

StartsWith(s, prefix) ==
    /\ Len(prefix) <= Len(s)
    /\ SubSeq(s, 1, Len(prefix)) = prefix

EndsWith(s, suffix) ==
    /\ Len(suffix) <= Len(s)
    /\ SubSeq(s, Len(s) - Len(suffix) + 1, Len(s)) = suffix

Contains(s, sub) ==
    \E i \in 1..(Len(s) - Len(sub) + 1) : SubSeq(s, i, i + Len(sub) - 1) = sub

RECURSIVE LStrip(_, _)
LStrip(s, chars) ==
    IF s # <<>> /\ Head(s) \in chars THEN LStrip(Tail(s), chars) ELSE s

RECURSIVE RStrip(_, _)
RStrip(s, chars) ==
    IF s # <<>> /\ s[Len(s)] \in chars THEN RStrip(SubSeq(s, 1, Len(s) - 1), chars) ELSE s

(* str.split("/") of a path that was joined from components. *)
RECURSIVE Split(_, _)
Split(s, sep) ==
    IF \A i \in 1..Len(s) : s[i] # sep THEN <<s>>
    ELSE LET k == CHOOSE i \in 1..Len(s) : s[i] = sep /\ \A j \in 1..(i - 1) : s[j] # sep
         IN <<SubSeq(s, 1, k - 1)>> \o Split(SubSeq(s, k + 1, Len(s)), sep)

(* fnmatch.fnmatch on POSIX: "*" matches any run of characters ("/" too),  *)
(* "?" one character, anything else itself.                                *)
RECURSIVE fnmatch(_, _)
fnmatch(name, pat) ==
    IF pat = <<>> THEN name = <<>>
    ELSE IF Head(pat) = "*"
         THEN fnmatch(name, Tail(pat)) \/ (name # <<>> /\ fnmatch(Tail(name), pat))
    ELSE IF name = <<>> THEN FALSE
    ELSE (Head(pat) = "?" \/ Head(pat) = Head(name)) /\ fnmatch(Tail(name), Tail(pat))

(* pathlib's PurePath.suffix and with_suffix("") on a file name. *)
LastDot(name) ==
    IF \E i \in 2..Len(name) : name[i] = "."
    THEN CHOOSE i \in 2..Len(name) : name[i] = "." /\ \A j \in (i + 1)..Len(name) : name[j] # "."
    ELSE 0

Suffix(name) ==
    IF LastDot(name) = 0 \/ LastDot(name) = Len(name) THEN <<>>
    ELSE SubSeq(name, LastDot(name), Len(name))

WithoutSuffix(name) ==
    IF Suffix(name) = <<>> THEN name ELSE SubSeq(name, 1, LastDot(name) - 1)

-----------------------------------------------------------------------------
(* The IgnoreSet: the patterns of the list that the paths of this model    *)
(* can meet.                                                               *)

ignored_patterns ==
    << <<"*", "*", "/">> \o S_cache \o <<"/">>,
       <<"*", ".", "l", "o", "g">>,
       <<".", "D", "S", "_", "S", "t", "o", "r", "e">>,
       S_mozilla \o <<"/">>,
       <<"*", "*", "/">> \o S_mozilla \o <<"/">> >>

matches_pattern(path, pattern) ==
    LET clean_pattern == RStrip(pattern, {"/"})
    IN IF Contains(clean_pattern, <<"*", "*">>)
       THEN LET suffix_pattern == LStrip(clean_pattern, {"*", "/"})
                path_parts == Split(path, "/")
            IN \E i \in 1..Len(path_parts) :
                  \/ fnmatch(path_parts[i], suffix_pattern)
                  \/ fnmatch(Join(SubSeq(path_parts, i, Len(path_parts)), <<"/">>),
                             suffix_pattern)
       ELSE fnmatch(path, clean_pattern)

(* file_path is given relative to the config dir, as its components. *)
is_file_ignored(file_path) ==
    \E k \in 1..Len(ignored_patterns) :
        matches_pattern(Join(file_path, <<"/">>), ignored_patterns[k])

(* What git does with info/exclude: a pattern without a slash other than   *)
(* a leading "**/" or a trailing "/" is matched against every component of *)
(* the path; a trailing "/" restricts it to directories, and everything    *)
(* below an excluded directory is excluded.  Every path of the model is a  *)
(* regular file, so its components but the last are directories.           *)
ExcludePattern(pattern) ==
    LET body == RStrip(pattern, {"/"})
    IN [dirOnly |-> EndsWith(pattern, <<"/">>),
        glob |-> IF StartsWith(body, <<"*", "*", "/">>) THEN SubSeq(body, 4, Len(body)) ELSE body]

Excluded(patterns, path) ==
    \E k \in 1..Len(patterns) :
        LET e == ExcludePattern(patterns[k])
        IN \E i \in 1..Len(path) :
              /\ fnmatch(path[i], e.glob)
              /\ e.dirOnly => i < Len(path)

no_exclude_file == <<>>

(* The lines written to <repo>/info/exclude. *)
create_git_exclude_file == ignored_patterns

-----------------------------------------------------------------------------
(* Themes, versions, file contents. *)

Themes == {"A", "B"}
ThemeChars(t) == IF t = "A-d" THEN <<"A", "-", "d">> ELSE <<t>>

Versions == {"1.0", "2.0"}
VersionChars(v) == IF v = "1.0" THEN <<"1", ".", "0">> ELSE <<"2", ".", "0">>

(* A file's content: the text outside PAW-THEME marker blocks, and the     *)
(* themes whose marker blocks the file holds.                              *)
Absent == [body |-> "", marks |-> {}]
Plain(b) == [body |-> b, marks |-> {}]

F_conf == <<S_kitty, S_kconf>>
F_cache == <<S_kitty, S_cache, S_data>>
F_gtk == <<S_gtk3, S_settings_ini>>
FILES == {F_conf, F_cache, F_gtk}

Main == [kind |-> "main", theme |-> "", ver |-> "", ts |-> 0]
ThemeBranch(t) == [kind |-> "theme", theme |-> t, ver |-> "", ts |-> 0]
BackupBranch(t, v, ts) == [kind |-> "backup", theme |-> t, ver |-> v, ts |-> ts]

InitialSubject == [kind |-> "init", theme |-> "", ver |-> "", ts |-> 0]
UserSubject(ts) == [kind |-> "user", theme |-> "", ver |-> "", ts |-> ts]
ApplySubject(t, v) == [kind |-> "apply", theme |-> t, ver |-> v, ts |-> 0]
ChoreSubject == [kind |-> "chore", theme |-> "", ver |-> "", ts |-> 0]

EmptyTree == [p \in FILES |-> Absent]

(* The paths of the model that info/exclude covers, and those the          *)
(* in-process matcher reports.                                             *)
ExcludedFiles == {p \in FILES : Excluded(create_git_exclude_file, p)}
IgnoredFiles == {p \in FILES : is_file_ignored(p)}

GitExcluded(path) == path \in ExcludedFiles

-----------------------------------------------------------------------------
(* git, on a repository value G = [commits, branches, head, index,         *)
(* worktree].  Each operator is one git command the engine runs.           *)

Repo ==
    [commits |-> commits, branches |-> branches, head |-> head,
     index |-> index, worktree |-> worktree]

TipTree(G, b) == G.commits[G.branches[b]].tree
HeadTree(G) == TipTree(G, G.head)

RECURSIVE Ancestors(_, _)
Ancestors(cs, c) == IF c = 0 THEN {} ELSE {c} \cup Ancestors(cs, cs[c].parent)

(* git status --porcelain: staged changes, unstaged changes of tracked     *)
(* files, untracked files that are not excluded.                           *)
GitStatus(G) ==
    {p \in FILES :
        \/ G.index[p] # HeadTree(G)[p]
        \/ G.index[p] # Absent /\ G.worktree[p] # G.index[p]
        \/ G.index[p] = Absent /\ G.worktree[p] # Absent /\ ~GitExcluded(p)}

(* git add -A: tracked files are updated, untracked ones added unless excluded. *)
GitAddAll(G) ==
    [G EXCEPT !.index =
        [p \in FILES |-> IF G.index[p] # Absent \/ ~GitExcluded(p)
                         THEN G.worktree[p] ELSE Absent]]

(* git add <path>: refused for an untracked excluded path. *)
GitAdd(G, p) ==
    IF G.index[p] = Absent /\ GitExcluded(p) THEN G
    ELSE [G EXCEPT !.index[p] = G.worktree[p]]

(* git commit -m: refused when nothing is staged, unless --allow-empty. *)
GitCommit(G, subject, allow_empty) ==
    IF ~allow_empty /\ G.index = HeadTree(G) THEN G
    ELSE [G EXCEPT !.commits = Append(@, [parent |-> G.branches[G.head],
                                          subject |-> subject, tree |-> G.index]),
                   !.branches[G.head] = Len(G.commits) + 1]

(* Moving HEAD from its tree to the tree `new`: a path that differs        *)
(* between the two must be clean; an untracked file in the way stops the   *)
(* switch unless it is excluded (then it is overwritten).                  *)
SwitchConflicts(G, new) ==
    {p \in FILES :
        /\ HeadTree(G)[p] # new[p]
        /\ \/ G.index[p] # HeadTree(G)[p]
           \/ G.index[p] # Absent /\ G.worktree[p] # G.index[p]
           \/ G.index[p] = Absent /\ G.worktree[p] # Absent /\ ~GitExcluded(p)}

SwitchTo(G, b, new, force) ==
    [G EXCEPT
        !.head = b,
        !.index = [p \in FILES |->
                      IF force \/ HeadTree(G)[p] # new[p] THEN new[p] ELSE G.index[p]],
        !.worktree = [p \in FILES |->
                      IF HeadTree(G)[p] # new[p] THEN new[p]
                      ELSE IF force /\ (G.index[p] # Absent \/ new[p] # Absent) THEN new[p]
                      ELSE G.worktree[p]]]

(* git checkout [--force] <branch> *)
GitCheckout(G, b, force) ==
    IF b \notin DOMAIN G.branches THEN [ok |-> FALSE, repo |-> G]
    ELSE IF ~force /\ SwitchConflicts(G, TipTree(G, b)) # {} THEN [ok |-> FALSE, repo |-> G]
    ELSE [ok |-> TRUE, repo |-> SwitchTo(G, b, TipTree(G, b), force)]

(* git checkout -b <branch> <start> *)
GitCheckoutNew(G, b, start) ==
    IF b \in DOMAIN G.branches \/ start \notin DOMAIN G.branches
    THEN [ok |-> FALSE, repo |-> G]
    ELSE IF SwitchConflicts(G, TipTree(G, start)) # {} THEN [ok |-> FALSE, repo |-> G]
    ELSE [ok |-> TRUE,
          repo |-> SwitchTo([G EXCEPT !.branches = @ @@ (b :> G.branches[start])],
                            b, TipTree(G, start), FALSE)]

(* git branch -m <old> <new>: HEAD follows the renamed branch. *)
GitBranchMove(G, old, new) ==
    IF old \notin DOMAIN G.branches \/ new \in DOMAIN G.branches
    THEN [ok |-> FALSE, repo |-> G]
    ELSE [ok |-> TRUE,
          repo |-> [G EXCEPT
              !.branches = [x \in (DOMAIN G.branches \ {old}) \cup {new} |->
                               IF x = new THEN G.branches[old] ELSE G.branches[x]],
              !.head = IF G.head = old THEN new ELSE G.head]]

(* git branch -D <branch>: refused for the branch that is checked out. *)
GitBranchDelete(G, b) ==
    IF b \notin DOMAIN G.branches \/ G.head = b THEN [ok |-> FALSE, repo |-> G]
    ELSE [ok |-> TRUE,
          repo |-> [G EXCEPT !.branches = [x \in DOMAIN G.branches \ {b} |-> G.branches[x]]]]

-----------------------------------------------------------------------------
(* The installer. *)

S_themes == <<"t", "h", "e", "m", "e", "s">>
S_targz == <<".", "t", "a", "r", ".", "g", "z">>
S_dotdot == <<".", ".">>
S_evil == <<"A", "-", "e", "v", "i", "l">>
S_etc == <<"e", "t", "c">>
S_x == <<"x">>

(* THEMES_FOLDER / theme_name, as the components of an absolute path. *)
ThemeDir(t) == <<S_themes, ThemeChars(t)>>

(* os.path.normpath on the components of an absolute path. *)
RECURSIVE normpath(_, _)
normpath(done, rest) ==
    IF rest = <<>> THEN done
    ELSE IF Head(rest) = <<>> \/ Head(rest) = <<".">> THEN normpath(done, Tail(rest))
    ELSE IF Head(rest) = S_dotdot
         THEN normpath(IF done = <<>> THEN <<>> ELSE SubSeq(done, 1, Len(done) - 1), Tail(rest))
    ELSE normpath(Append(done, Head(rest)), Tail(rest))

abspath(comps) == <<"/">> \o Join(normpath(<<>>, comps), <<"/">>)

(* os.path.commonpath of relative names: the longest common run of leading components. *)
commonpath(names) ==
    LET common(parts) ==
            LET Common(k) == \A i \in DOMAIN names :
                    Len(parts[i]) >= k /\ SubSeq(parts[i], 1, k) = SubSeq(parts[1], 1, k)
            IN Join(SubSeq(parts[1], 1,
                           CHOOSE k \in 0..Len(parts[1]) :
                               Common(k) /\ \A j \in (k + 1)..Len(parts[1]) : ~Common(j)),
                    <<"/">>)
    IN common([i \in DOMAIN names |->
                  SelectSeq(Split(names[i], "/"), LAMBDA c : c # <<>> /\ c # <<".">>)])

IsDigit(c) == c \in {"0", "1", "2", "3", "4", "5", "6", "7", "8", "9"}

(* \d+(?:\.\d+)* *)
IsVersion(s) ==
    /\ s # <<>>
    /\ \A i \in 1..Len(s) : IsDigit(s[i]) \/ s[i] = "."
    /\ IsDigit(s[1]) /\ IsDigit(s[Len(s)])
    /\ \A i \in 1..(Len(s) - 1) : ~(s[i] = "." /\ s[i + 1] = ".")

(* <name>-v<version> is tried first, then <name>-<version>; the version    *)
(* holds no "-", so it starts after the last one.                          *)
parse_name_and_version_from_archive_name(filename) ==
    LET base_no_ext == IF EndsWith(filename, S_targz)
                       THEN SubSeq(filename, 1, Len(filename) - Len(S_targz))
                       ELSE filename
        dashes == {i \in 2..Len(base_no_ext) : base_no_ext[i] = "-"}
        k == CHOOSE i \in dashes : \A j \in dashes : j <= i
        rest == SubSeq(base_no_ext, k + 1, Len(base_no_ext))
    IN IF dashes = {} THEN [ok |-> FALSE, name |-> <<>>, version |-> <<>>]
       ELSE IF rest # <<>> /\ Head(rest) = "v" /\ IsVersion(Tail(rest))
       THEN [ok |-> TRUE, name |-> SubSeq(base_no_ext, 1, k - 1), version |-> Tail(rest)]
       ELSE IF IsVersion(rest)
       THEN [ok |-> TRUE, name |-> SubSeq(base_no_ext, 1, k - 1), version |-> rest]
       ELSE [ok |-> FALSE, name |-> <<>>, version |-> <<>>]

NoFiles == [m \in {} |-> ""]
NotInstalled == [present |-> FALSE, version |-> "", source |-> ""]

(* tar_filter is tarfile's default extraction filter: "fully_trusted"      *)
(* before Python 3.14, "data" from 3.14 on (a member that would land       *)
(* outside the destination is then skipped).                               *)
install_theme_from_archive_file(t, theme_version, archive, tar_filter) ==
    IF ~archive.gzip_tar
    THEN [outcome |-> "ReadError", version |-> theme_version,
          folder |-> [exists |-> TRUE, files |-> NoFiles], outside |-> {}]
    ELSE LET members == archive.members
             names == [i \in DOMAIN members |-> members[i].name]
             strip(common_dir) ==
                 IF members = <<>> THEN 0
                 ELSE IF \A i \in DOMAIN names : StartsWith(names[i], common_dir)
                      THEN Len(common_dir) + 1 ELSE 0
             new_name(i, strip_length) ==
                 IF strip_length # 0
                 THEN SubSeq(names[i], strip_length + 1, Len(names[i]))
                 ELSE names[i]
             target_path(n) == ThemeDir(t) \o Split(n, "/")
             Inside(d) == Len(d) > 2 /\ SubSeq(d, 1, 2) = ThemeDir(t)
             rel(d) == SubSeq(d, 3, Len(d))
             extract(dest) ==
                 LET written == {i \in DOMAIN dest :
                                    /\ dest[i] # <<>>
                                    /\ ~members[i].isdir
                                    /\ tar_filter = "fully_trusted" \/ Inside(dest[i])}
                 IN [outcome |-> "installed", version |-> theme_version,
                     folder |-> [exists |-> TRUE,
                                 files |-> [m \in {rel(dest[i]) :
                                                      i \in {j \in written : Inside(dest[j])}} |->
                                               members[CHOOSE i \in written :
                                                   Inside(dest[i]) /\ rel(dest[i]) = m].body]],
                     outside |-> {dest[i] : i \in {j \in written : ~Inside(dest[j])}}]
             (* Where each member lands; <<>> for a member that is skipped. *)
             members_to_extract(strip_length) ==
                 [i \in DOMAIN members |->
                     LET to(n) ==
                             IF strip_length # 0 /\ n = <<>> THEN <<>>
                             ELSE LET checked(target) ==
                                          IF StartsWith(abspath(target), abspath(ThemeDir(t)))
                                          THEN normpath(<<>>, target) ELSE <<>>
                                  IN checked(target_path(n))
                     IN to(new_name(i, strip_length))]
         IN extract(members_to_extract(strip(commonpath(names))))

(* install_theme given the path of a local archive. *)
install_theme(archive, tar_filter) ==
    LET parsed == parse_name_and_version_from_archive_name(archive.file_name)
        t == CHOOSE x \in Themes : ThemeChars(x) = parsed.name
        v == CHOOSE x \in Versions : VersionChars(x) = parsed.version
    IN IF ~archive.exists
       THEN [theme |-> "", outcome |-> "not found", version |-> "",
             folder |-> [exists |-> FALSE, files |-> NoFiles], outside |-> {}]
       ELSE IF ~parsed.ok
       THEN [theme |-> "", outcome |-> "ValueError", version |-> "",
             folder |-> [exists |-> FALSE, files |-> NoFiles], outside |-> {}]
       ELSE [theme |-> t] @@ install_theme_from_archive_file(t, v, archive, tar_filter)

-----------------------------------------------------------------------------
(* Theme archives, built as the test fixture builds them: an entry for the *)
(* root directory <name>-v<version>, then the files below it.              *)

Member(parts, isdir, body) == [name |-> Join(parts, <<"/">>), isdir |-> isdir, body |-> body]

root_prefix(t, v) == ThemeChars(t) \o <<"-", "v">> \o VersionChars(v)

ThemeFiles(t, v) ==
    IF t = "A"
    THEN <<Member(<<root_prefix(t, v), S_configs, S_kitty, S_kconf>>, FALSE,
                  IF v = "1.0" THEN "a1" ELSE "a2"),
           Member(<<root_prefix(t, v), S_configs, S_kitty, S_kconf_postpaw>>, FALSE, "pa")>>
    ELSE <<Member(<<root_prefix(t, v), S_configs, S_kitty, S_kconf>>, FALSE, "b1"),
           Member(<<root_prefix(t, v), S_configs, S_kitty, S_cache, S_data>>, FALSE, "bc"),
           Member(<<root_prefix(t, v), S_gtk_theme, S_gtk_css>>, FALSE, "css")>>

create_tarball(t, v) ==
    [file_name |-> root_prefix(t, v) \o S_targz, exists |-> TRUE, gzip_tar |-> TRUE,
     members |-> <<Member(<<root_prefix(t, v)>>, TRUE, "")>> \o ThemeFiles(t, v)]

GoodArchives == {create_tarball("A", "1.0"), create_tarball("A", "2.0"), create_tarball("B", "1.0")}

TarFilters == {"fully_trusted", "data"}

(* What installing each archive of the model yields, and the relative      *)
(* paths an installed theme can hold.                                      *)
(* An archive path that names no file, a file that is no gzip tar, a file  *)
(* whose name holds no version, and an archive with members that climb out *)
(* of its root directory.                                                  *)
MissingArchive == [create_tarball("A", "1.0") EXCEPT !.exists = FALSE]

CorruptArchive == [create_tarball("A", "1.0") EXCEPT !.gzip_tar = FALSE, !.members = <<>>]

RejectedArchive == [create_tarball("A", "1.0") EXCEPT !.file_name = ThemeChars("A") \o S_targz]

HostileArchive ==
    [create_tarball("A", "1.0") EXCEPT !.members =
        <<Member(<<root_prefix("A", "1.0")>>, TRUE, ""),
          Member(<<root_prefix("A", "1.0"), S_configs, S_kitty, S_kconf>>, FALSE, "a1"),
          Member(<<root_prefix("A", "1.0"), S_dotdot, S_evil, S_x>>, FALSE, "x"),
          Member(<<root_prefix("A", "1.0"), S_dotdot, S_dotdot, S_etc, S_x>>, FALSE, "x")>>]

Archives == GoodArchives \cup {MissingArchive, CorruptArchive, RejectedArchive, HostileArchive}

InstallResult == [archive \in Archives |-> [tar_filter \in TarFilters |-> install_theme(archive, tar_filter)]]

(* A theme with two application directories below configs/: kitty, and    *)
(* one whose stem is gtk-3.0.                                              *)
S_gtk3_d == S_gtk3 \o <<".", "d">>

TwoAppTarball ==
    [create_tarball("B", "2.0") EXCEPT !.members =
        <<Member(<<root_prefix("B", "2.0")>>, TRUE, ""),
          Member(<<root_prefix("B", "2.0"), S_configs, S_kitty, S_kconf>>, FALSE, "b1"),
          Member(<<root_prefix("B", "2.0"), S_configs, S_gtk3_d, S_settings_ini>>, FALSE, "c")>>]

TwoAppResult == [tar_filter \in TarFilters |-> install_theme(TwoAppTarball, tar_filter)]

MemberPaths ==
    UNION ({DOMAIN InstallResult[archive][tar_filter].folder.files :
               archive \in Archives, tar_filter \in TarFilters}
           \cup {DOMAIN TwoAppResult[tar_filter].folder.files : tar_filter \in TarFilters})

(* What the user writes into a file of the config dir. *)
UserBodies(p) == IF p = F_conf THEN {"u", "b1"} ELSE {"c"}

(* The files the user edits with arbitrary content. *)
UserFiles == {F_conf, F_cache}

-----------------------------------------------------------------------------
(* SelectiveThemeManager. *)

S_postpaw == <<".", "p", "o", "s", "t", "p", "a", "w">>
S_prepaw == <<".", "p", "r", "e", "p", "a", "w">>
S_jsonpaw == <<".", "j", "s", "o", "n", "p", "a", "w">>

(* The files of an installed theme, as paths relative to its directory. *)
ThemeMembers(t) == DOMAIN themesFolder[t].files

get_theme(t) == themesFolder[t].exists

get_theme_version_from_installed(t) ==
    IF installed_themes[t].present THEN installed_themes[t].version ELSE "unknown"

get_saved_theme_version_in_branch(t) ==
    IF versionFile[t] # "" THEN versionFile[t] ELSE "unknown"

has_uncommitted_changes(G) == GitStatus(G) # {}

handle_uncommitted_changes_skipped(G, ts) == G

handle_uncommitted_changes(G, ts) ==
    IF has_uncommitted_changes(G)
    THEN GitCommit(GitAddAll(G), UserSubject(ts), FALSE)
    ELSE G

create_or_switch_branch(G, t, ts) ==
    LET switch(G1) ==
            IF ThemeBranch(t) \in DOMAIN G1.branches
            THEN LET or_force(soft) ==
                         IF soft.ok THEN soft ELSE GitCheckout(G1, ThemeBranch(t), TRUE)
                 IN or_force(GitCheckout(G1, ThemeBranch(t), FALSE))
            ELSE GitCheckoutNew(G1, ThemeBranch(t), Main)
    IN switch(handle_uncommitted_changes(G, ts))

(* git log --grep "Apply theme: <t>" -1 on HEAD: the subject line          *)
(* "Apply theme: <name> v<version>" contains the needle.                   *)
has_theme_commit_in_branch(G, t) ==
    \E c \in Ancestors(G.commits, G.branches[G.head]) :
        /\ G.commits[c].subject.kind = "apply"
        /\ StartsWith(ThemeChars(G.commits[c].subject.theme) \o <<" ", "v">>
                          \o VersionChars(G.commits[c].subject.ver),
                      ThemeChars(t))

(* The rename alone, without a fresh branch from main: HEAD follows the    *)
(* renamed branch.                                                         *)
backup_and_recreate_branch_in_place(G, t, old_version, ts) ==
    GitBranchMove(handle_uncommitted_changes(G, ts), ThemeBranch(t),
                  BackupBranch(t, old_version, ts)).repo

(* The results of the three git commands are not looked at. *)
backup_and_recreate_branch(G, t, old_version, ts) ==
    LET G1 == handle_uncommitted_changes(G, ts)
        G2 == GitBranchMove(G1, ThemeBranch(t), BackupBranch(t, old_version, ts)).repo
        G3 == GitCheckout(G2, Main, FALSE).repo
    IN GitCheckoutNew(G3, ThemeBranch(t), Main).repo

IsPatchFile(name) == Suffix(name) \in {S_postpaw, S_prepaw, S_jsonpaw}

(* <config dir>/<app>/<relative path>, a patch file standing for the file it patches. *)
TargetFile(app, m) ==
    <<app>> \o SubSeq(m, 3, Len(m) - 1)
            \o <<IF IsPatchFile(m[Len(m)]) THEN WithoutSuffix(m[Len(m)]) ELSE m[Len(m)]>>

(* For each file a theme can hold: the config file _get_theme_files looks  *)
(* at (tracked), the one MergeCopyHandler writes (dst), and the file's kind. *)
Targets ==
    [m \in MemberPaths |->
        [under |-> Len(m) >= 3 /\ m[1] = S_configs,
         tracked |-> IF Len(m) >= 3 THEN TargetFile(m[2], m) ELSE <<>>,
         dst |-> IF Len(m) >= 3 THEN TargetFile(WithoutSuffix(m[2]), m) ELSE <<>>,
         plain |-> ~IsPatchFile(m[Len(m)]),
         patch |-> Suffix(m[Len(m)]) \in {S_postpaw, S_prepaw}]]

get_theme_files(W, t) ==
    LET tracked(targets) ==
            {p \in FILES :
                /\ W[p] # Absent
                /\ p \notin IgnoredFiles
                /\ \E m \in ThemeMembers(t) : targets[m].under /\ p = targets[m].tracked}
    IN tracked(Targets)

clean_old_patches_from_theme_files(W, theme_files) ==
    [p \in FILES |-> IF p \in theme_files THEN [W[p] EXCEPT !.marks = {}] ELSE W[p]]

(* MergeCopyHandler: plain files are copied over their targets, then the   *)
(* pre/post patches are applied to the targets that exist.                 *)
smart_copy(src_body) == Plain(src_body)

apply_to_file(theme_name, content) == [content EXCEPT !.marks = @ \cup {theme_name}]

apply_for_all_configs(W, t) ==
    LET files == themesFolder[t].files
        merge_and_patch(targets) ==
            LET Copies(p) == {m \in DOMAIN files :
                    targets[m].under /\ targets[m].plain /\ targets[m].dst = p}
                Patches(p) == {m \in DOMAIN files :
                    targets[m].under /\ targets[m].patch /\ targets[m].dst = p}
                patch(copied) ==
                    [p \in FILES |->
                        IF copied[p] # Absent /\ Patches(p) # {}
                        THEN apply_to_file(t, copied[p])
                        ELSE copied[p]]
            IN patch([p \in FILES |->
                         IF Copies(p) # {}
                         THEN smart_copy(files[CHOOSE m \in Copies(p) : TRUE])
                         ELSE W[p]])
    IN merge_and_patch(Targets)

HasConfigsDir(t) == \E m \in ThemeMembers(t) : Len(m) >= 2 /\ m[1] = S_configs

GitAddFiles(G, paths) ==
    [G EXCEPT !.index = [p \in FILES |->
        IF p \in paths /\ ~(G.index[p] = Absent /\ GitExcluded(p))
        THEN G.worktree[p] ELSE G.index[p]]]

(* apply_theme past the early return: lines 553-606. *)
copy_and_commit(G0, t, current_version, new_version, has_theme_commit, ts) ==
    LET commit(G3) ==
            GitCommit(GitAddAll(GitAddFiles(G3, get_theme_files(G3.worktree, t))),
                      ApplySubject(t, new_version), FALSE)
        copy(G2) ==
            IF ~HasConfigsDir(t)
            THEN [outcome |-> "FileNotFoundError", repo |-> G2, version |-> versionFile[t]]
            ELSE [outcome |-> "applied",
                  repo |-> commit([G2 EXCEPT !.worktree = apply_for_all_configs(@, t)]),
                  version |-> new_version]
        clean(G1) ==
            copy([G1 EXCEPT !.worktree =
                     clean_old_patches_from_theme_files(@, get_theme_files(@, t))])
    IN clean(IF /\ current_version # new_version
                /\ current_version # "unknown"
                /\ has_theme_commit
             THEN backup_and_recreate_branch(G0, t, current_version, ts)
             ELSE G0)

apply_theme_always_copies(G, t, ts) ==
    IF ~get_theme(t)
    THEN [outcome |-> "ThemeNotFound", repo |-> G, version |-> versionFile[t]]
    ELSE LET switched(sw) ==
                 IF ~sw.ok
                 THEN [outcome |-> "RuntimeError", repo |-> sw.repo,
                       version |-> versionFile[t]]
                 ELSE copy_and_commit(sw.repo, t, get_saved_theme_version_in_branch(t),
                                      get_theme_version_from_installed(t),
                                      has_theme_commit_in_branch(sw.repo, t), ts)
         IN switched(create_or_switch_branch(G, t, ts))

apply_theme_saves_first(G, t, ts) ==
    IF ~get_theme(t)
    THEN [outcome |-> "ThemeNotFound", repo |-> handle_uncommitted_changes(G, ts),
          version |-> versionFile[t]]
    ELSE apply_theme_always_copies(G, t, ts)

apply_theme(G, t, ts) ==
    IF ~get_theme(t)
    THEN [outcome |-> "ThemeNotFound", repo |-> G, version |-> versionFile[t]]
    ELSE LET new_version == get_theme_version_from_installed(t)
             current_version == get_saved_theme_version_in_branch(t)
             on_branch(G1, has_theme_commit) ==
                 IF current_version = new_version /\ has_theme_commit
                 THEN [outcome |-> "switched", repo |-> G1, version |-> versionFile[t]]
                 ELSE copy_and_commit(G1, t, current_version, new_version,
                                      has_theme_commit, ts)
             switched(sw) ==
                 IF ~sw.ok
                 THEN [outcome |-> "RuntimeError", repo |-> sw.repo,
                       version |-> versionFile[t]]
                 ELSE on_branch(sw.repo, has_theme_commit_in_branch(sw.repo, t))
         IN switched(create_or_switch_branch(G, t, ts))

restore_original_discarding(G, ts) ==
    GitCheckout(G, Main, TRUE).repo

restore_original(G, ts) ==
    GitCheckout(handle_uncommitted_changes(G, ts), Main, FALSE).repo

(* git check-ignore has no --exclude-standard option: it stops with a      *)
(* usage error and empty output, so the list of ignored paths is empty and *)
(* the function returns before touching the index.                         *)
CheckIgnoreOutput(G) == {}

cleanup_ignored_files(G) ==
    LET ignored_files == CheckIgnoreOutput(G)
        removed(G1) ==
            IF has_uncommitted_changes(G1)
            THEN [result |-> "Cleanup complete", repo |-> GitCommit(G1, ChoreSubject, TRUE)]
            ELSE [result |-> "No changes needed", repo |-> G1]
    IN IF G.index = EmptyTree THEN [result |-> "No tracked files found", repo |-> G]
       ELSE IF ignored_files = {} THEN [result |-> "No ignored files found", repo |-> G]
       ELSE removed([G EXCEPT !.index = [p \in FILES |->
                        IF p \in ignored_files THEN Absent ELSE G.index[p]]])

delete_theme_branch_forced(G, t) ==
    IF ThemeBranch(t) \notin DOMAIN G.branches THEN [ok |-> FALSE, repo |-> G]
    ELSE [ok |-> TRUE,
          repo |-> [G EXCEPT !.branches =
                       [x \in DOMAIN G.branches \ {ThemeBranch(t)} |-> G.branches[x]]]]

delete_theme_branch(G, t) ==
    IF ThemeBranch(t) \notin DOMAIN G.branches THEN [ok |-> FALSE, repo |-> G]
    ELSE GitBranchDelete(G, ThemeBranch(t))

-----------------------------------------------------------------------------
(* The state after SelectiveThemeManager() on a fresh state dir. *)

NoTrip == [phase |-> 0, a |-> "", f |-> <<>>, edit |-> Absent]

InitState ==
    /\ commits = <<[parent |-> 0, subject |-> InitialSubject, tree |-> EmptyTree]>>
    /\ branches = (Main :> 1)
    /\ head = Main
    /\ index = EmptyTree
    /\ worktree = EmptyTree
    /\ versionFile = [t \in Themes |-> ""]
    /\ themesFolder = [t \in Themes |-> [exists |-> FALSE, files |-> NoFiles]]
    /\ installed_themes = [t \in Themes |-> NotInstalled]
    /\ outsideWrites = {}
    /\ now = 0
    /\ last = [op |-> "init", arg |-> "", outcome |-> "", head0 |-> Main, saved |-> FALSE]
    /\ trip = NoTrip
    /\ steps = 0

NothingAsked ==
    /\ query = <<>>
    /\ verdict = [ignored |-> FALSE, matched |-> {}, excluded |-> FALSE]

NothingMerged ==
    /\ src_dir = <<>>
    /\ dst_dir = <<>>
    /\ journal = <<>>

NothingFetched ==
    /\ entries = <<>>
    /\ response = [official |-> [ok |-> TRUE, lines |-> <<>>],
                   community |-> [ok |-> TRUE, lines |-> <<>>]]
    /\ remote_themes = [outcome |-> "", themes |-> <<>>]

Init ==
    /\ InitState
    /\ NothingFetched
    /\ NothingMerged
    /\ NothingAsked
    /\ target_file = <<>>
    /\ patch_content = [pre |-> <<>>, post |-> <<>>]
    /\ original = <<>>
    /\ patched = [t \in Themes |-> 0]

SetRepo(G) ==
    /\ commits' = G.commits
    /\ branches' = G.branches
    /\ head' = G.head
    /\ index' = G.index
    /\ worktree' = G.worktree

Ran(op, arg, outcome, saved) ==
    /\ steps' = steps + 1
    /\ last' = [op |-> op, arg |-> arg, outcome |-> outcome, head0 |-> head, saved |-> saved]

(* The user writes or removes a file under the config dir. *)
UserEdit(p, c) ==
    /\ steps < MaxSteps
    /\ c # worktree[p]
    /\ worktree' = [worktree EXCEPT ![p] = c]
    /\ Ran("edit", "", "", FALSE)
    /\ trip' = IF trip.phase = 1 /\ ~Excluded(ignored_patterns, p)
               THEN [trip EXCEPT !.phase = 2, !.f = p, !.edit = c]
               ELSE NoTrip
    /\ UNCHANGED <<patchVars, installerVars, mergeVars, ignoreVars>>
    /\ UNCHANGED <<commits, branches, head, index, versionFile, themesFolder,
                   installed_themes, outsideWrites, now>>

ApplyTheme(t) ==
    /\ steps < MaxSteps
    /\ \E r \in {apply_theme(Repo, t, now)} :
          /\ SetRepo(r.repo)
          /\ versionFile' = [versionFile EXCEPT ![t] = r.version]
          /\ Ran("apply_theme", t, r.outcome,
                 r.outcome # "ThemeNotFound" /\ has_uncommitted_changes(Repo))
          /\ trip' = IF r.outcome \notin {"applied", "switched"} THEN NoTrip
                     ELSE IF trip.phase = 2 /\ t # trip.a THEN [trip EXCEPT !.phase = 3]
                     ELSE IF trip.phase = 3 /\ t = trip.a THEN [trip EXCEPT !.phase = 4]
                     ELSE [NoTrip EXCEPT !.phase = 1, !.a = t]
    /\ UNCHANGED <<patchVars, installerVars, mergeVars, ignoreVars>>
    /\ UNCHANGED <<themesFolder, installed_themes, outsideWrites, now>>

RestoreOriginal ==
    /\ steps < MaxSteps
    /\ SetRepo(restore_original(Repo, now))
    /\ Ran("restore_original", "", "", has_uncommitted_changes(Repo))
    /\ trip' = NoTrip
    /\ UNCHANGED <<patchVars, installerVars, mergeVars, ignoreVars>>
    /\ UNCHANGED <<versionFile, themesFolder, installed_themes, outsideWrites, now>>

CleanupIgnoredFiles ==
    /\ steps < MaxSteps
    /\ \E r \in {cleanup_ignored_files(Repo)} :
          /\ SetRepo(r.repo)
          /\ Ran("cleanup_ignored_files", "", r.result, FALSE)
    /\ trip' = NoTrip
    /\ UNCHANGED <<patchVars, installerVars, mergeVars, ignoreVars>>
    /\ UNCHANGED <<versionFile, themesFolder, installed_themes, outsideWrites, now>>

DeleteThemeBranch(t) ==
    /\ steps < MaxSteps
    /\ \E r \in {delete_theme_branch(Repo, t)} :
          /\ SetRepo(r.repo)
          /\ Ran("delete_theme_branch", t, IF r.ok THEN "True" ELSE "False", FALSE)
    /\ trip' = NoTrip
    /\ UNCHANGED <<patchVars, installerVars, mergeVars, ignoreVars>>
    /\ UNCHANGED <<versionFile, themesFolder, installed_themes, outsideWrites, now>>

(* The install repeats the one before it: the same theme and version,     *)
(* onto the directory that the same archive left.                          *)
Reinstall(archive, tar_filter) ==
    LET r == InstallResult[archive][tar_filter]
    IN /\ r.outcome = "installed"
       /\ last.op = "install_theme" /\ last.outcome = "installed" /\ last.arg = r.theme
       /\ installed_themes[r.theme].version = r.version
       /\ themesFolder[r.theme] = r.folder

Install_over_old_directory(archive, tar_filter) ==
    /\ steps < MaxSteps
    /\ \E r \in {InstallResult[archive][tar_filter]} :
          /\ IF r.outcome \in {"not found", "ValueError"}
             THEN UNCHANGED <<themesFolder, installed_themes, outsideWrites>>
             ELSE /\ themesFolder' = [themesFolder EXCEPT ![r.theme] =
                         [r.folder EXCEPT !.files = @ @@ themesFolder[r.theme].files]]
                  /\ installed_themes' =
                         IF r.outcome = "installed"
                         THEN [installed_themes EXCEPT ![r.theme] =
                                  [present |-> TRUE, version |-> r.version,
                                   source |-> "local"]]
                         ELSE installed_themes
                  /\ outsideWrites' = outsideWrites \cup r.outside
          /\ Ran("install_theme", r.theme, r.outcome, FALSE)
    /\ trip' = IF Reinstall(archive, tar_filter)
               THEN [NoTrip EXCEPT !.phase = 5, !.a = InstallResult[archive][tar_filter].theme]
               ELSE NoTrip
    /\ UNCHANGED <<patchVars, installerVars, mergeVars, ignoreVars>>
    /\ UNCHANGED <<commits, branches, head, index, worktree, versionFile, now>>

Install(archive, tar_filter) ==
    /\ steps < MaxSteps
    /\ \E r \in {InstallResult[archive][tar_filter]} :
          /\ IF r.outcome \in {"not found", "ValueError"}
             THEN UNCHANGED <<themesFolder, installed_themes, outsideWrites>>
             ELSE /\ themesFolder' = [themesFolder EXCEPT ![r.theme] = r.folder]
                  /\ installed_themes' =
                         IF r.outcome = "installed"
                         THEN [installed_themes EXCEPT ![r.theme] =
                                  [present |-> TRUE, version |-> r.version,
                                   source |-> "local"]]
                         ELSE installed_themes
                  /\ outsideWrites' = outsideWrites \cup r.outside
          /\ Ran("install_theme", r.theme, r.outcome, FALSE)
    /\ trip' = IF Reinstall(archive, tar_filter)
               THEN [NoTrip EXCEPT !.phase = 5, !.a = InstallResult[archive][tar_filter].theme]
               ELSE NoTrip
    /\ UNCHANGED <<patchVars, installerVars, mergeVars, ignoreVars>>
    /\ UNCHANGED <<commits, branches, head, index, worktree, versionFile, now>>

InstallTheme == \E archive \in GoodArchives, tar_filter \in TarFilters : Install(archive, tar_filter)

UninstallTheme(t) ==
    /\ steps < MaxSteps
    /\ themesFolder' = [themesFolder EXCEPT ![t] = [exists |-> FALSE, files |-> NoFiles]]
    /\ installed_themes' = [installed_themes EXCEPT ![t] = NotInstalled]
    /\ versionFile' = [versionFile EXCEPT ![t] = ""]
    /\ Ran("uninstall_theme", t, "", FALSE)
    /\ trip' = NoTrip
    /\ UNCHANGED <<patchVars, installerVars, mergeVars, ignoreVars>>
    /\ UNCHANGED <<commits, branches, head, index, worktree, outsideWrites, now>>

Tick ==
    /\ now < MaxTime
    /\ now' = now + 1
    /\ UNCHANGED <<patchVars, installerVars, mergeVars, ignoreVars>>
    /\ UNCHANGED <<commits, branches, head, index, worktree, versionFile, themesFolder,
                   installed_themes, outsideWrites, last, trip, steps>>

Edit ==
    \E p \in UserFiles : \E c \in {Absent} \cup {[body |-> b, marks |-> worktree[p].marks] : b \in UserBodies(p)} :
        UserEdit(p, c)

Next ==
    \/ Edit
    \/ \E t \in Themes : ApplyTheme(t)
    \/ RestoreOriginal
    \/ CleanupIgnoredFiles
    \/ \E t \in Themes : DeleteThemeBranch(t)
    \/ InstallTheme
    \/ \E t \in Themes : UninstallTheme(t)

Spec == Init /\ [][Next]_vars

-----------------------------------------------------------------------------
(* Upgrades of one theme, with the clock running. *)

InstallUpgrade ==
    \E v \in Versions, tar_filter \in TarFilters : Install(create_tarball("A", v), tar_filter)

ApplyUpgrade == ApplyTheme("A")

NextUpgrade ==
    \/ InstallUpgrade
    \/ ApplyUpgrade
    \/ RestoreOriginal
    \/ Tick

SpecUpgrade == Init /\ [][NextUpgrade]_vars

-----------------------------------------------------------------------------
(* A repository in which an excluded file got tracked by hand, as in       *)
(* test_ignore_files: git add -f <file>; git commit -m "Track ignored file". *)

ManualSubject == [kind |-> "manual", theme |-> "", ver |-> "", ts |-> 0]

ForceTrack(p) ==
    /\ steps < MaxSteps
    /\ GitExcluded(p)
    /\ worktree[p] # Absent
    /\ index[p] # worktree[p]
    /\ SetRepo(GitCommit([Repo EXCEPT !.index[p] = worktree[p]], ManualSubject, FALSE))
    /\ Ran("force_track", "", "", FALSE)
    /\ trip' = NoTrip
    /\ UNCHANGED <<patchVars, installerVars, mergeVars, ignoreVars>>
    /\ UNCHANGED <<versionFile, themesFolder, installed_themes, outsideWrites, now>>

NextTracked ==
    \/ Edit
    \/ \E p \in FILES : ForceTrack(p)
    \/ CleanupIgnoredFiles
    \/ RestoreOriginal

SpecTracked == Init /\ [][NextTracked]_vars

-----------------------------------------------------------------------------
(* The installer alone, fed every archive of the model. *)

InstallArchive == \E archive \in Archives, tar_filter \in TarFilters : Install(archive, tar_filter)

NextInstall ==
    \/ InstallArchive
    \/ \E t \in Themes : UninstallTheme(t)

SpecInstall == Init /\ [][NextInstall]_vars

-----------------------------------------------------------------------------
(* The claims. *)

(* The step just taken ran operation op with argument arg. *)
Did(op, arg) == steps' = steps + 1 /\ last'.op = op /\ last'.arg = arg

IgnoreSetFiles == {p \in FILES : Excluded(ignored_patterns, p)}

(* Branch T's history holds an "Apply theme: T" commit. *)
AppliedBefore(t) ==
    /\ ThemeBranch(t) \in DOMAIN branches
    /\ has_theme_commit_in_branch([Repo EXCEPT !.head = ThemeBranch(t)], t)

(* After the step, the tip of branch A is a fresh [USER] commit made on    *)
(* top of A's old tip that holds the pending changes, and it is not in the *)
(* history of theme t's branch.                                            *)
SavedOn(A, t) ==
    /\ A \in DOMAIN branches'
    /\ branches'[A] > Len(commits)
    /\ commits'[branches'[A]].subject.kind = "user"
    /\ commits'[branches'[A]].parent = branches[A]
    /\ \A p \in GitStatus(Repo) : commits'[branches'[A]].tree[p] = worktree[p]
    /\ ThemeBranch(t) \in DOMAIN branches' =>
          branches'[A] \notin Ancestors(commits', branches'[ThemeBranch(t)])

(* C1, as stated: whenever apply_theme(B) runs while another branch A is   *)
(* checked out and non-ignored changes are pending, the tip of A becomes a *)
(* [USER] commit holding them that is not part of B's history.             *)
C1_AsStated ==
    [][\A t \in Themes :
          (Did("apply_theme", t) /\ head # ThemeBranch(t) /\ GitStatus(Repo) # {})
              => SavedOn(head, t)]_vars

(* C1, amended: the same for an existing theme B and a checked-out theme   *)
(* branch A (not main): the pending changes become a [USER] commit at the  *)
(* tip of A, made before HEAD moves, and it is not part of B's history.    *)
C1_SavedOnThemeBranch ==
    [][\A t \in Themes :
          (/\ Did("apply_theme", t)
           /\ get_theme(t)
           /\ head.kind = "theme" /\ head # ThemeBranch(t)
           /\ GitStatus(Repo) # {})
              => SavedOn(head, t)]_vars

C1_Witness ==
    /\ last.op = "apply_theme"
    /\ last.outcome \in {"applied", "switched"}
    /\ last.head0.kind = "theme" /\ last.head0 # ThemeBranch(last.arg)
    /\ last.saved
    /\ commits[branches[last.head0]].subject.kind = "user"

(* C2: after apply A; edit F; apply B; apply A (F not ignored) the         *)
(* work-tree copy of F is the user's edit.                                 *)
C2_RoundTrip == trip.phase = 4 => worktree[trip.f] = trip.edit

(* C3, as stated: when T's version file equals its manifest version and    *)
(* branch T holds an "Apply theme: T" commit, apply_theme(T) creates no    *)
(* commit and no branch and writes no work-tree file beyond the checkout.  *)
C3_AsStated ==
    [][\A t \in Themes :
          (/\ Did("apply_theme", t)
           /\ installed_themes[t].present
           /\ versionFile[t] = installed_themes[t].version
           /\ AppliedBefore(t))
              => /\ commits' = commits
                 /\ DOMAIN branches' = DOMAIN branches
                 /\ \A p \in FILES : worktree'[p] \in {worktree[p], TipTree(Repo, ThemeBranch(t))[p]}]_vars

(* C3, amended: in that case apply_theme(T) only switches to T: it creates *)
(* no branch, no "Apply theme" commit and no commit at all except one      *)
(* [USER] commit when changes were pending, leaves the version file alone, *)
(* and every work-tree file is either untouched or as in the tip of T.     *)
C3_OnlySwitches ==
    [][\A t \in Themes :
          (/\ Did("apply_theme", t)
           /\ installed_themes[t].present
           /\ versionFile[t] = installed_themes[t].version
           /\ AppliedBefore(t))
              => /\ last'.outcome = "switched"
                 /\ head' = ThemeBranch(t)
                 /\ DOMAIN branches' = DOMAIN branches
                 /\ versionFile' = versionFile
                 /\ IF GitStatus(Repo) = {} THEN commits' = commits
                    ELSE /\ Len(commits') = Len(commits) + 1
                         /\ SubSeq(commits', 1, Len(commits)) = commits
                         /\ commits'[Len(commits')].subject.kind = "user"
                 /\ \A p \in FILES :
                       worktree'[p] \in {worktree[p], commits'[branches'[ThemeBranch(t)]].tree[p]}]_vars

C3_Witness ==
    /\ last.op = "apply_theme"
    /\ last.outcome = "switched"
    /\ last.saved
    /\ head = ThemeBranch(last.arg)

(* C4: applying a previously applied theme T whose manifest version        *)
(* differs from the version in T.version creates exactly one new branch,   *)
(* T-v<old>-backup-<timestamp>; with equal versions no branch is created.  *)
C4_BackupOnUpgrade ==
    [][\A t \in Themes :
          (/\ Did("apply_theme", t)
           /\ get_theme(t)
           /\ installed_themes[t].present
           /\ versionFile[t] # ""
           /\ AppliedBefore(t))
              => DOMAIN branches' \ DOMAIN branches =
                    IF versionFile[t] # installed_themes[t].version
                    THEN {BackupBranch(t, versionFile[t], now)}
                    ELSE {}]_vars

(* C5: the tip of main is always the initial empty commit. *)
C5_MainUntouched == branches[Main] = 1

(* C6: delete_theme_branch(T) is refused (False, branch kept) while HEAD   *)
(* is on T and succeeds (True, branch gone) for an existing branch T when  *)
(* HEAD is elsewhere; no step removes the branch that is checked out.      *)
C6_ActiveBranchProtected ==
    [][/\ \A t \in Themes :
             Did("delete_theme_branch", t) =>
                /\ head = ThemeBranch(t) =>
                      last'.outcome = "False" /\ ThemeBranch(t) \in DOMAIN branches'
                /\ (head # ThemeBranch(t) /\ ThemeBranch(t) \in DOMAIN branches) =>
                      last'.outcome = "True" /\ ThemeBranch(t) \notin DOMAIN branches'
       /\ head \in DOMAIN branches'
       /\ head' \in DOMAIN branches']_vars

C6_Witness ==
    /\ last.op = "delete_theme_branch"
    /\ last.head0 = ThemeBranch(last.arg)
    /\ last.outcome = "False"
    /\ head = ThemeBranch(last.arg)

(* C7: no commit the engine created ([USER] or Apply theme) holds a path   *)
(* that matches the IgnoreSet.                                             *)
C7_IgnoredNeverCommitted ==
    \A c \in 1..Len(commits) :
        commits[c].subject.kind \in {"user", "apply", "chore"} =>
            \A p \in IgnoreSetFiles : commits[c].tree[p] = Absent

C7_Witness ==
    /\ last.op = "apply_theme"
    /\ last.outcome = "applied"
    /\ last.saved
    /\ commits[Len(commits)].subject.kind = "apply"
    /\ \E p \in IgnoreSetFiles : worktree[p] # Absent

(* C8: after cleanup_ignored_files no tracked path matches the IgnoreSet,  *)
(* the work-tree is unchanged, and a "chore: stop tracking ignored files"  *)
(* commit is made exactly when a path left the index.                      *)
C8_CleanupUntracks ==
    [][Did("cleanup_ignored_files", "") =>
          /\ \A p \in IgnoreSetFiles : index'[p] = Absent
          /\ worktree' = worktree
          /\ (/\ Len(commits') = Len(commits) + 1
              /\ commits'[Len(commits')].subject.kind = "chore")
                <=> (\E p \in FILES : index[p] # Absent /\ index'[p] = Absent)]_vars

(* C9: installing any archive writes no file outside <themes>/<name>. *)
C9_NothingOutside == outsideWrites = {}

(* C10: an install that fails (archive missing, corrupt or rejected)       *)
(* leaves the directory and the manifest record of every installed theme   *)
(* as they were.                                                           *)
C10_FailedInstallKeepsState ==
    [][(/\ steps' = steps + 1
        /\ last'.op = "install_theme"
        /\ last'.outcome \in {"not found", "ValueError", "ReadError"})
          => \A t \in Themes :
                installed_themes[t].present =>
                   /\ themesFolder'[t] = themesFolder[t]
                   /\ installed_themes'[t] = installed_themes[t]]_vars

(* C11: every manifest record's theme directory exists, and a theme with   *)
(* no manifest record has no directory in the themes folder.               *)
C11_ManifestInvariant ==
    \A t \in Themes : installed_themes[t].present <=> themesFolder[t].exists

(* The regular files of an archive, by their path below the archive's root *)
(* directory, leaving out the members that climb out of it.                *)
ArchiveContents(a) ==
    LET rel(i) == Tail(Split(a.members[i].name, "/"))
        fs == {i \in DOMAIN a.members :
                  ~a.members[i].isdir /\ \A k \in DOMAIN rel(i) : rel(i)[k] # S_dotdot}
    IN [m \in {rel(i) : i \in fs} |-> a.members[CHOOSE i \in fs : rel(i) = m].body]

InstallableArchives ==
    {<<create_tarball(t, v), t, v>> : t \in Themes, v \in Versions}
        \cup {<<HostileArchive, "A", "1.0">>}

-----------------------------------------------------------------------------
(* theming/patch_engine.py on text.  A text is a sequence of tokens: a
   character, or one whole marker "# PAW-THEME-<tag>-<edge>: <theme>" (the
   marker without the newline that ends its line). *)

MaxPatches == 3

Ch(c) == [tag |-> "char", edge |-> "", arg |-> c]
NL == Ch("\n")
Marker(tag, edge, theme_name) == [tag |-> tag, edge |-> edge, arg |-> theme_name]

IsSpace(tok) == tok = NL

LineStart(s, i) == i = 1 \/ s[i - 1] = NL

(* \s* from position i: the first position at or after i that is no whitespace *)
RECURSIVE SkipSpace(_, _)
SkipSpace(s, i) == IF i <= Len(s) /\ IsSpace(s[i]) THEN SkipSpace(s, i + 1) ELSE i

(* The names a marker can carry: the themes, a name that differs from     *)
(* theme A in letter case only, and a name that theme A is a prefix of.    *)
RegionNames == Themes \cup {"a", "Ax"}

NameChars(n) == IF n = "Ax" THEN <<"A", "x">> ELSE <<n>>

(* re.IGNORECASE: letters are compared without their case. *)
Fold(cs) == [i \in DOMAIN cs |-> IF cs[i] = "A" THEN "a" ELSE IF cs[i] = "B" THEN "b" ELSE cs[i]]

(* "PAW-THEME-(PRE|POST)-START:\s*NAME": the name is matched as a prefix *)
IsStart(tok, theme_name) ==
    /\ tok.tag \in {"PRE", "POST"}
    /\ tok.edge = "START"
    /\ StartsWith(Fold(NameChars(tok.arg)), Fold(NameChars(theme_name)))

(* "^\s*# PAW-THEME-\1-END:\s*NAME\s*$" with the marker at position m: the
   marker is first on its line, and a line end follows it.  The value is the
   last position the match consumes, 0 when there is no match. *)
EndMatch(s, m, tag, theme_name) ==
    LET end(u) == IF u - 1 = Len(s) THEN Len(s)
                  ELSE IF u - 1 > m THEN u - 2
                  ELSE 0
    IN IF /\ s[m].tag = tag /\ s[m].edge = "END"
          /\ Fold(NameChars(s[m].arg)) = Fold(NameChars(theme_name))
          /\ \E e \in 1..m : LineStart(s, e) /\ \A q \in e..(m - 1) : IsSpace(s[q])
       THEN end(SkipSpace(s, m + 1))
       ELSE 0

(* A match of the block pattern that starts at position i: the last position
   it consumes (".*?" is lazy: the first END marker that matches), or 0. *)
BlockMatch(s, i, theme_name) ==
    LET upto(j) ==
            IF j > Len(s) \/ ~IsStart(s[j], theme_name) THEN 0
            ELSE LET ends == {m \in (j + 1)..Len(s) : EndMatch(s, m, s[j].tag, theme_name) # 0}
                 IN IF ends = {} THEN 0
                    ELSE EndMatch(s, CHOOSE m \in ends : \A n \in ends : m <= n,
                                  s[j].tag, theme_name)
    IN IF LineStart(s, i) THEN upto(SkipSpace(s, i)) ELSE 0

(* pattern.sub("", original), scanning from position i *)
RECURSIVE pattern_sub(_, _, _)
pattern_sub(s, i, theme_name) ==
    LET from(x) == IF x # 0 THEN pattern_sub(s, x + 1, theme_name)
                   ELSE <<s[i]>> \o pattern_sub(s, i + 1, theme_name)
    IN IF i > Len(s) THEN <<>> ELSE from(BlockMatch(s, i, theme_name))

strip(s) == LStrip(RStrip(s, {NL}), {NL})

PatchEngine_apply_to_file(theme_name, text, pre_content, post_content) ==
    LET block(tag, content) ==
            <<Marker(tag, "START", theme_name), NL>> \o content
                \o <<Marker(tag, "END", theme_name), NL>>
        new_content(cleaned) ==
            (IF pre_content # <<>> THEN block("PRE", pre_content) \o <<NL>> ELSE <<>>)
                \o strip(cleaned) \o <<NL>>
                \o (IF post_content # <<>> THEN <<NL>> \o block("POST", post_content) ELSE <<>>)
    IN strip(new_content(pattern_sub(text, 1, theme_name)))

OriginalTexts ==
    {<<>>, <<Ch("o")>>, <<Ch("o"), NL>>, <<NL, Ch("o"), NL>>, <<Ch("o"), NL, Ch("o"), NL>>}

PrePayloads == {<<>>, <<Ch("p")>>, <<Ch("p"), NL>>}
PostPayloads == {<<>>, <<Ch("q")>>, <<Ch("q"), NL>>}

InitPatch ==
    /\ InitState
    /\ NothingFetched
    /\ NothingMerged
    /\ NothingAsked
    /\ target_file \in OriginalTexts
    /\ original = target_file
    /\ patch_content \in {c \in [pre : PrePayloads, post : PostPayloads] :
                            c.pre # <<>> \/ c.post # <<>>}
    /\ patched = [t \in Themes |-> 0]

(* PatchEngine.apply_to_file(theme_name, target_file, pre_content, post_content) *)
ApplyPatch(theme_name) ==
    /\ patched[theme_name] < MaxPatches
    /\ target_file' = PatchEngine_apply_to_file(theme_name, target_file,
                                                patch_content.pre, patch_content.post)
    /\ patched' = [patched EXCEPT ![theme_name] = @ + 1]
    /\ UNCHANGED <<patch_content, original>>
    /\ UNCHANGED <<engineVars, installerVars, mergeVars, ignoreVars>>

NextPatch == \E theme_name \in Themes : ApplyPatch(theme_name)

SpecPatch == InitPatch /\ [][NextPatch]_vars

Count(s, tok) == Cardinality({i \in DOMAIN s : s[i] = tok})

IsUserText(tok) == tok = Ch("o")

(* C13: once theme T's patch was applied to the target file one or more
   times, the file holds exactly one PRE block of T around the pre payload
   (none when there is no pre payload), exactly one POST block of T around
   the post payload (none when there is no post payload), and the text
   outside the blocks is the text the file had before the first
   application. *)
C13_OneBlockPerTheme ==
    \A t \in Themes :
        patched[t] >= 1 =>
            /\ \A tag \in {"PRE", "POST"} :
                 LET content == IF tag = "PRE" THEN patch_content.pre ELSE patch_content.post
                     n == IF content # <<>> THEN 1 ELSE 0
                 IN /\ Count(target_file, Marker(tag, "START", t)) = n
                    /\ Count(target_file, Marker(tag, "END", t)) = n
                    /\ n = 1 => Contains(target_file,
                                         <<Marker(tag, "START", t), NL>> \o content
                                             \o <<Marker(tag, "END", t)>>)
            /\ SelectSeq(target_file, IsUserText) = SelectSeq(original, IsUserText)

-----------------------------------------------------------------------------
(* C14: apply_theme of a theme that is in no themes folder raises
   ThemeNotFound and changes nothing: HEAD, the branches and their tips, the
   commits, the index, the work-tree and the version files stay as they
   were, so pending user edits are not committed. *)
C14_ThemeNotFoundChangesNothing ==
    [][\A t \in Themes :
          (ApplyTheme(t) /\ ~get_theme(t))
          => /\ last'.outcome = "ThemeNotFound"
             /\ UNCHANGED <<commits, branches, head, index, worktree, versionFile>>]_vars

C14_Witness ==
    /\ last.op = "apply_theme" /\ last.outcome = "ThemeNotFound"
    /\ \E u \in Themes \ {last.arg} : head = ThemeBranch(u)
    /\ ThemeBranch(last.arg) \in DOMAIN branches
    /\ has_uncommitted_changes(Repo)

-----------------------------------------------------------------------------
(* C15: restore_original, from any state, first commits the pending user
   edits on the branch that is checked out, then leaves HEAD on main
   (get_current_theme reports no active theme); no branch is deleted or
   rewritten: every branch other than the one that was checked out keeps its
   tip, and that one keeps its old tip in its history. *)
C15_RestoreOriginal ==
    [][RestoreOriginal
       => /\ head' = Main
          /\ has_uncommitted_changes(Repo)
             => /\ commits'[branches'[head]].subject = UserSubject(now)
                /\ commits'[branches'[head]].parent = branches[head]
                /\ \A p \in GitStatus(Repo) :
                       commits'[branches'[head]].tree[p] = worktree[p]
          /\ DOMAIN branches' = DOMAIN branches
          /\ \A b \in DOMAIN branches :
                /\ b # head => branches'[b] = branches[b]
                /\ branches[b] \in Ancestors(commits', branches'[b])
          /\ SubSeq(commits', 1, Len(commits)) = commits]_vars

C15_Witness ==
    /\ last.op = "restore_original" /\ last.saved
    /\ last.head0 # Main
    /\ head = Main
    /\ commits[branches[last.head0]].subject.kind = "user"

-----------------------------------------------------------------------------
(* ThemeManager in selective mode (manager.py) and the system appliers
   (system_theme_appliers.py): GTKThemeApplier links <theme>/gtk-theme and
   sets gtk-theme-name in <config dir>/gtk-3.0/settings.ini. *)

GtkThemeEntry(t) ==
    IF t = "A" THEN "gtk-theme-name=pawlette-A" ELSE "gtk-theme-name=pawlette-B"

UserGtkEntry == "gtk-theme-name=Adwaita"

(* _setup_symlink: the theme ships a gtk-theme folder *)
setup_symlink(t) == \E m \in ThemeMembers(t) : m[1] = S_gtk_theme

(* _update_gtk_config(GTK3_CFG, "pawlette-<t>"): nothing without the
   gtk-3.0 directory; else the file is created if missing and its
   gtk-theme-name line is set. *)
update_gtk_config(W, t, parent_exists) ==
    IF W[F_gtk] = Absent /\ ~parent_exists THEN W
    ELSE [W EXCEPT ![F_gtk] = [@ EXCEPT !.body = GtkThemeEntry(t)]]

apply_system_themes(G, t, parent_exists) ==
    IF setup_symlink(t)
    THEN [G EXCEPT !.worktree = update_gtk_config(@, t, parent_exists)]
    ELSE G

(* ThemeManager.apply_theme: an exception of the selective manager ends it *)
ThemeManager_apply_theme(G, t, ts, parent_exists) ==
    LET then(r) ==
            IF r.outcome \in {"ThemeNotFound", "RuntimeError", "FileNotFoundError"} THEN r
            ELSE [r EXCEPT !.repo = apply_system_themes(@, t, parent_exists)]
    IN then(apply_theme(G, t, ts))

(* pawlette set-theme <t> *)
SetTheme(t) ==
    /\ steps < MaxSteps
    /\ \E parent_exists \in BOOLEAN :
       \E r \in {ThemeManager_apply_theme(Repo, t, now, parent_exists)} :
          /\ SetRepo(r.repo)
          /\ versionFile' = [versionFile EXCEPT ![t] = r.version]
          /\ Ran("set-theme", t, r.outcome,
                 r.outcome # "ThemeNotFound" /\ has_uncommitted_changes(Repo))
    /\ trip' = NoTrip
    /\ UNCHANGED <<patchVars, installerVars, mergeVars, ignoreVars>>
    /\ UNCHANGED <<themesFolder, installed_themes, outsideWrites, now>>

(* The user sets a GTK theme by hand. *)
EditGtkSettings ==
    \E c \in {Absent, [body |-> UserGtkEntry, marks |-> worktree[F_gtk].marks]} :
        UserEdit(F_gtk, c)

(* ThemeManager.reset_theme_to_clean: it works on self.git, which
   __init__ sets only when use_selective is false; the command line builds
   ThemeManager(config), so use_selective is true and the first use of
   self.git raises AttributeError. *)
reset_theme_to_clean(G, t) == [outcome |-> "AttributeError", repo |-> G]

(* pawlette reset-theme <t> *)
ResetTheme(t) ==
    /\ steps < MaxSteps
    /\ \E r \in {reset_theme_to_clean(Repo, t)} :
          /\ SetRepo(r.repo)
          /\ Ran("reset-theme", t, r.outcome, FALSE)
    /\ trip' = NoTrip
    /\ UNCHANGED <<patchVars, installerVars, mergeVars, ignoreVars>>
    /\ UNCHANGED <<versionFile, themesFolder, installed_themes, outsideWrites, now>>

NextManager ==
    \/ EditGtkSettings
    \/ Edit
    \/ \E t \in Themes : SetTheme(t)
    \/ \E t \in Themes : ResetTheme(t)
    \/ InstallTheme

SpecManager == Init /\ [][NextManager]_vars

SystemSubject(t) == [kind |-> "system", theme |-> t, ver |-> "", ts |-> 0]

(* C16: when set-theme T returns successfully nothing is left uncommitted,
   and what the system appliers changed in the work-tree is in the tip of
   branch T, a commit with subject 'Apply system themes for: T'. *)
C16_SystemThemesCommitted ==
    (last.op = "set-theme" /\ last.outcome \in {"applied", "switched"})
    => /\ ~has_uncommitted_changes(Repo)
       /\ (setup_symlink(last.arg) /\ worktree[F_gtk] # Absent)
          => /\ HeadTree(Repo)[F_gtk] = worktree[F_gtk]
             /\ \E c \in Ancestors(commits, branches[head]) :
                    commits[c].subject = SystemSubject(last.arg)

-----------------------------------------------------------------------------
(* C17: reset-theme T, for an installed theme T whose branch exists,
   switches to branch T and restores the files owned by T to their content
   at T's tip; the other files keep their work-tree content, and no branch
   or commit changes. *)
C17_ResetThemeScoped ==
    [][\A t \in Themes :
          (ResetTheme(t) /\ get_theme(t) /\ ThemeBranch(t) \in DOMAIN branches)
          => /\ head' = ThemeBranch(t)
             /\ \A p \in FILES :
                   IF p \in get_theme_files(TipTree(Repo, ThemeBranch(t)), t)
                   THEN worktree'[p] = TipTree(Repo, ThemeBranch(t))[p]
                   ELSE head = ThemeBranch(t) => worktree'[p] = worktree[p]
             /\ branches' = branches
             /\ commits' = commits]_vars

-----------------------------------------------------------------------------
(* The user-changes query and restore-commit of SelectiveThemeManager. *)

(* get_user_changes_info(theme_name): for a theme other than the current
   one it first runs _create_or_switch_branch; a RuntimeError of that call
   is not caught. *)
get_user_changes_info(G, t, ts) ==
    LET status(sw) ==
            [outcome |-> IF sw.ok THEN "info" ELSE "RuntimeError", repo |-> sw.repo]
    IN IF G.head # ThemeBranch(t)
       THEN status(create_or_switch_branch(G, t, ts))
       ELSE [outcome |-> "info", repo |-> G]

(* git cherry-pick <c> on a clean work-tree: the paths the commit changed
   against its parent take the commit's content.  It stops on a path that
   HEAD changed too, and when it would change nothing. *)
GitCherryPick(G, c) ==
    LET pick(P, C, H) ==
            IF \/ \A p \in FILES : C[p] = P[p] \/ C[p] = H[p]
               \/ \E p \in FILES : /\ C[p] # P[p]
                                   /\ \/ H[p] \notin {P[p], C[p]}
                                      \/ G.index[p] # H[p]
                                      \/ G.worktree[p] # H[p]
            THEN [ok |-> FALSE, repo |-> G]
            ELSE [ok |-> TRUE,
                  repo |-> [G EXCEPT
                      !.commits = Append(@, [parent |-> G.branches[G.head],
                                             subject |-> G.commits[c].subject,
                                             tree |-> [p \in FILES |->
                                                 IF C[p] # P[p] THEN C[p] ELSE H[p]]]),
                      !.branches[G.head] = Len(G.commits) + 1,
                      !.index = [p \in FILES |-> IF C[p] # P[p] THEN C[p] ELSE @[p]],
                      !.worktree = [p \in FILES |-> IF C[p] # P[p] THEN C[p] ELSE @[p]]]]
    IN pick(IF G.commits[c].parent = 0 THEN EmptyTree
            ELSE G.commits[G.commits[c].parent].tree,
            G.commits[c].tree, HeadTree(G))

(* restore_user_commit(theme_name, commit_hash) *)
restore_user_commit(G, t, c, ts) ==
    LET picked(r) ==
            [outcome |-> IF r.ok THEN "restored" ELSE "stopped", repo |-> r.repo]
        switched(sw) ==
            IF ~sw.ok THEN [outcome |-> "RuntimeError", repo |-> sw.repo]
            ELSE picked(GitCherryPick(handle_uncommitted_changes(sw.repo, ts), c))
    IN switched(create_or_switch_branch(G, t, ts))

(* pawlette user-changes <t> *)
GetUserChangesInfo(t) ==
    /\ steps < MaxSteps
    /\ \E r \in {get_user_changes_info(Repo, t, now)} :
          /\ SetRepo(r.repo)
          /\ Ran("get_user_changes_info", t, r.outcome, has_uncommitted_changes(Repo))
    /\ trip' = NoTrip
    /\ UNCHANGED <<patchVars, installerVars, mergeVars, ignoreVars>>
    /\ UNCHANGED <<versionFile, themesFolder, installed_themes, outsideWrites, now>>

(* pawlette restore-commit <c> <t>, for a commit that applies cleanly *)
RestoreUserCommit(t, c) ==
    /\ steps < MaxSteps
    /\ \E r \in {restore_user_commit(Repo, t, c, now)} :
          /\ r.outcome # "stopped"
          /\ SetRepo(r.repo)
          /\ Ran("restore_user_commit", t, r.outcome, has_uncommitted_changes(Repo))
    /\ trip' = NoTrip
    /\ UNCHANGED <<patchVars, installerVars, mergeVars, ignoreVars>>
    /\ UNCHANGED <<versionFile, themesFolder, installed_themes, outsideWrites, now>>

NextLifecycle ==
    \/ InstallTheme
    \/ \E t \in Themes : ApplyTheme(t)
    \/ \E t \in Themes : GetUserChangesInfo(t)
    \/ \E t \in Themes : \E c \in DOMAIN commits : RestoreUserCommit(t, c)
    \/ RestoreOriginal
    \/ CleanupIgnoredFiles
    \/ \E t \in Themes : DeleteThemeBranch(t)
    \/ \E t \in Themes : UninstallTheme(t)

SpecLifecycle == Init /\ [][NextLifecycle]_vars

(* C18: a theme branch T comes into existence only through apply_theme(T)
   of a theme that exists; no other operation creates a branch; a theme
   branch disappears only through the uninstall of its theme (the
   installer's uninstall or the branch removal that belongs to it). *)
C18_BranchLifecycle ==
    [][/\ \A b \in DOMAIN branches' \ DOMAIN branches :
             /\ b.kind \in {"theme", "backup"}
             /\ last'.op = "apply_theme" /\ last'.arg = b.theme
             /\ get_theme(b.theme)
       /\ \A b \in DOMAIN branches \ DOMAIN branches' :
             b.kind = "theme"
             => last'.op \in {"uninstall_theme", "delete_theme_branch"}
                /\ last'.arg = b.theme]_vars

-----------------------------------------------------------------------------
(* C19: in every reachable state, branch T with an 'Apply theme: T' commit
   in its history exists if and only if <state>/T.version exists. *)
C19_VersionFileLivesWithBranch ==
    \A t \in Themes :
        (/\ ThemeBranch(t) \in DOMAIN branches
         /\ \E c \in Ancestors(commits, branches[ThemeBranch(t)]) :
                commits[c].subject.kind = "apply" /\ commits[c].subject.theme = t)
        <=> versionFile[t] # ""

-----------------------------------------------------------------------------
(* Backup branches and their pruning. *)

(* The characters of branch names, in the order Python compares them. *)
Alphabet ==
    <<"-", ".", "0", "1", "2", "3", "4", "5", "6", "7", "8", "9", "A", "B",
      "a", "b", "c", "d", "k", "p", "u", "v">>

Ord(c) == CHOOSE i \in DOMAIN Alphabet : Alphabet[i] = c

(* str.__lt__ *)
RECURSIVE StrLess(_, _)
StrLess(a, b) ==
    IF b = <<>> THEN FALSE
    ELSE IF a = <<>> THEN TRUE
    ELSE IF Head(a) # Head(b) THEN Ord(Head(a)) < Ord(Head(b))
    ELSE StrLess(Tail(a), Tail(b))

(* strftime("%Y%m%d-%H%M%S"): fixed width, here the last digit of the seconds *)
TimeChars(ts) == <<Alphabet[ts + 3]>>

(* f"{theme_name}-v{old_version}-backup-{timestamp}" *)
BackupName(b) ==
    ThemeChars(b.theme) \o <<"-", "v">> \o VersionChars(b.ver)
        \o <<"-", "b", "a", "c", "k", "u", "p", "-">> \o TimeChars(b.ts)

(* git branch --list "*-backup-*" *)
list_backup_branches(G) == {b \in DOMAIN G.branches : b.kind = "backup"}

(* cleanup_old_backups(theme_name, keep_last): the names that start with
   "<theme_name>-" are sorted in reverse order and all but the first
   keep_last are deleted with git branch -D. *)
cleanup_old_backups(G, theme_name, keep_last) ==
    LET prune(backups) ==
            LET old == {b \in backups :
                           Cardinality({n \in backups :
                               StrLess(BackupName(b), BackupName(n))}) >= keep_last}
            IN [G EXCEPT !.branches =
                   [x \in DOMAIN G.branches \ (old \ {G.head}) |-> G.branches[x]]]
    IN prune({b \in list_backup_branches(G) :
                 StartsWith(BackupName(b), ThemeChars(theme_name) \o <<"-">>)})

KeepLast == {1, 2}

CleanupOldBackups(t, keep_last) ==
    /\ steps < MaxSteps
    /\ SetRepo(cleanup_old_backups(Repo, t, keep_last))
    /\ Ran("cleanup_old_backups", t, "", FALSE)
    /\ trip' = NoTrip
    /\ UNCHANGED <<patchVars, installerVars, mergeVars, ignoreVars>>
    /\ UNCHANGED <<versionFile, themesFolder, installed_themes, outsideWrites, now>>

NextBackups ==
    \/ InstallUpgrade
    \/ ApplyUpgrade
    \/ Tick
    \/ \E t \in Themes, keep_last \in KeepLast : CleanupOldBackups(t, keep_last)

SpecBackups == Init /\ [][NextBackups]_vars

BackupsOf(bs, t) == {b \in DOMAIN bs : b.kind = "backup" /\ b.theme = t}

(* C20: after cleanup_old_backups(T, N) the backup branches of T that
   remain are the N created last (by backup timestamp) when more than N
   existed, and all of them otherwise. *)
C20_KeepLastN ==
    [][\A t \in Themes, keep_last \in KeepLast :
          CleanupOldBackups(t, keep_last)
          => /\ BackupsOf(branches', t) \subseteq BackupsOf(branches, t)
             /\ Cardinality(BackupsOf(branches', t))
                    = IF Cardinality(BackupsOf(branches, t)) > keep_last
                      THEN keep_last ELSE Cardinality(BackupsOf(branches, t))
             /\ \A kept \in BackupsOf(branches', t) :
                \A gone \in BackupsOf(branches, t) \ BackupsOf(branches', t) :
                    kept.ts >= gone.ts]_vars

-----------------------------------------------------------------------------
(* Applying themes whose installation may have failed half-way. *)

InstallOrFail ==
    \E archive \in GoodArchives \cup {CorruptArchive}, tar_filter \in TarFilters :
        Install(archive, tar_filter)

NextCancel ==
    \/ InstallOrFail
    \/ \E t \in Themes : ApplyTheme(t)
    \/ Edit

SpecCancel == Init /\ [][NextCancel]_vars

ApplyErrors == {"RuntimeError", "FileNotFoundError"}

(* C21: when apply_theme(T) aborts with an error after it started, the
   branch that was checked out before the call still exists, and its tip is
   the tip it had before the call or the automatic '[USER]' commit on top of
   it; and after such an abort, apply_theme of any installed theme that has
   a configs directory completes. *)
C21_Cancellation ==
    [][\A t \in Themes :
          (ApplyTheme(t) /\ last'.outcome \in ApplyErrors)
          => /\ head \in DOMAIN branches'
             /\ \/ branches'[head] = branches[head]
                \/ /\ commits'[branches'[head]].subject.kind = "user"
                   /\ commits'[branches'[head]].parent = branches[head]
             /\ \A u \in Themes :
                   (get_theme(u) /\ HasConfigsDir(u))
                   => LET G == [commits |-> commits', branches |-> branches',
                                head |-> head', index |-> index', worktree |-> worktree']
                      IN apply_theme(G, u, now).outcome \in {"applied", "switched"}]_vars

-----------------------------------------------------------------------------
(* Installing from a direct archive URL. *)

S_host == <<"h", "o", "s", "t">>
DefaultVersion == <<"1", ".", "0">>

(* The last match of "v", a dotted number, then one of "-", "_", "." or the *)
(* end of the name; "1.0" when nothing matches.  A match holds no second   *)
(* "v", so the last match is the match at the last "v" that has one; the   *)
(* greedy number is the longest one.                                       *)
extract_version_from_filename(filename) ==
    LET ends(i) == {k \in (i + 1)..Len(filename) :
                       /\ IsVersion(SubSeq(filename, i + 1, k))
                       /\ k = Len(filename) \/ filename[k + 1] \in {"-", "_", "."}}
        starts == {i \in 1..Len(filename) : filename[i] = "v" /\ ends(i) # {}}
        longest(i) == CHOOSE k \in ends(i) : \A j \in ends(i) : j <= k
        at(i) == SubSeq(filename, i + 1, longest(i))
    IN IF starts = {} THEN DefaultVersion
       ELSE at(CHOOSE i \in starts : \A j \in starts : j <= i)

(* An archive named <name>-<version>.tar.gz, and the archives by name form. *)
PlainTarball(t, v) ==
    [create_tarball(t, v) EXCEPT !.file_name = ThemeChars(t) \o <<"-">> \o VersionChars(v) \o S_targz]

NamedTarball(t, v, form) == IF form = "v" THEN create_tarball(t, v) ELSE PlainTarball(t, v)

NameForms == {"v", "plain"}

NamedArchives == {NamedTarball(t, v, form) : t \in Themes, v \in Versions, form \in NameForms}

(* A direct link to an archive: the segments of the URL's path. *)
ArchiveUrl(archive) == <<S_host, archive.file_name>>

(* install_theme given a direct URL (not a GitHub /archive/ link): the     *)
(* name comes from the archive name, the version from                      *)
(* _install_theme_from_url, the source is ThemeSource.LOCAL.               *)
install_theme_url(theme_url, archive, tar_filter) ==
    LET archive_name == theme_url[Len(theme_url)]
        parsed == parse_name_and_version_from_archive_name(archive_name)
        t == CHOOSE x \in Themes : ThemeChars(x) = parsed.name
        theme_version == extract_version_from_filename(archive_name)
        v == CHOOSE x \in Versions : VersionChars(x) = theme_version
    IN IF ~parsed.ok
       THEN [theme |-> "", outcome |-> "not parsed", version |-> "",
             folder |-> [exists |-> FALSE, files |-> NoFiles], outside |-> {}]
       ELSE [theme |-> t] @@ install_theme_from_archive_file(t, v, archive, tar_filter)

NamedInstallResult ==
    [archive \in NamedArchives |-> [tar_filter \in TarFilters |->
        [url |-> install_theme_url(ArchiveUrl(archive), archive, tar_filter),
         path |-> install_theme(archive, tar_filter)]]]

InstallFrom(archive, tar_filter, how) ==
    /\ steps < MaxSteps
    /\ \E r \in {NamedInstallResult[archive][tar_filter][how]} :
          /\ themesFolder' = [themesFolder EXCEPT ![r.theme] = r.folder]
          /\ installed_themes' = [installed_themes EXCEPT ![r.theme] =
                                     [present |-> TRUE, version |-> r.version,
                                      source |-> "local"]]
          /\ outsideWrites' = outsideWrites \cup r.outside
          /\ Ran("install_theme", r.theme, r.outcome, FALSE)
    /\ trip' = NoTrip
    /\ UNCHANGED <<patchVars, installerVars, mergeVars, ignoreVars>>
    /\ UNCHANGED <<commits, branches, head, index, worktree, versionFile, now>>

InstallFromUrl == \E archive \in NamedArchives, tar_filter \in TarFilters : InstallFrom(archive, tar_filter, "url")

InstallFromPath == \E archive \in NamedArchives, tar_filter \in TarFilters : InstallFrom(archive, tar_filter, "path")

NextNames ==
    \/ InstallFromUrl
    \/ InstallFromPath
    \/ \E t \in Themes : UninstallTheme(t)

SpecNames == Init /\ [][NextNames]_vars

(* C22: for an archive named <name>-v<A.B.C>.tar.gz or                     *)
(* <name>-<A.B.C>.tar.gz, installing by direct URL and installing by local *)
(* path both record the theme <name> with version A.B.C and source local.  *)
C22_SameParsing ==
    [][\A t \in Themes, v \in Versions, form \in NameForms, tar_filter \in TarFilters :
          \A how \in {"url", "path"} :
              InstallFrom(NamedTarball(t, v, form), tar_filter, how)
              => installed_themes'[t] = [present |-> TRUE, version |-> v, source |-> "local"]]_vars

-----------------------------------------------------------------------------
(* Archives of other layouts. *)

(* The files of create_tarball(t, v) without the root directory: the       *)
(* member names share no leading directory.                                *)
FlatTarball(t, v) ==
    LET files == ThemeFiles(t, v)
        below(name) == SubSeq(name, Len(root_prefix(t, v)) + 2, Len(name))
    IN [create_tarball(t, v) EXCEPT !.members =
           [i \in DOMAIN files |-> [files[i] EXCEPT !.name = below(files[i].name)]]]

LayoutArchives == GoodArchives \cup {FlatTarball(t, v) : t \in Themes, v \in Versions}

LayoutResult ==
    [archive \in LayoutArchives |-> [tar_filter \in TarFilters |-> install_theme(archive, tar_filter)]]

InstallLayout(archive, tar_filter) ==
    /\ steps < MaxSteps
    /\ \E r \in {LayoutResult[archive][tar_filter]} :
          /\ themesFolder' = [themesFolder EXCEPT ![r.theme] = r.folder]
          /\ installed_themes' = [installed_themes EXCEPT ![r.theme] =
                                     [present |-> TRUE, version |-> r.version,
                                      source |-> "local"]]
          /\ outsideWrites' = outsideWrites \cup r.outside
          /\ Ran("install_theme", r.theme, r.outcome, FALSE)
    /\ trip' = NoTrip
    /\ UNCHANGED <<patchVars, installerVars, mergeVars, ignoreVars>>
    /\ UNCHANGED <<commits, branches, head, index, worktree, versionFile, now>>

NextLayout ==
    \/ \E archive \in LayoutArchives, tar_filter \in TarFilters : InstallLayout(archive, tar_filter)
    \/ \E t \in Themes : UninstallTheme(t)

SpecLayout == Init /\ [][NextLayout]_vars

(* The components of a member name below the longest run of leading        *)
(* components that all member names of the archive share.                  *)
BelowCommonPrefix(archive, name) ==
    LET names == [i \in DOMAIN archive.members |-> archive.members[i].name]
        common == commonpath(names)
        parts == Split(name, "/")
    IN IF common = <<>> THEN parts
       ELSE SubSeq(parts, Len(Split(common, "/")) + 1, Len(parts))

(* C23: installing an archive puts every file member at its path with the  *)
(* longest common path prefix of all members removed: below the single     *)
(* top-level directory when there is one, and at its unchanged path when   *)
(* the members share no directory.                                         *)
C23_PrefixStripped ==
    [][\A archive \in LayoutArchives, tar_filter \in TarFilters :
          InstallLayout(archive, tar_filter)
          => \A i \in DOMAIN archive.members :
                ~archive.members[i].isdir
                => LET p == BelowCommonPrefix(archive, archive.members[i].name)
                   IN /\ p \in DOMAIN themesFolder'[last'.arg].files
                      /\ themesFolder'[last'.arg].files[p] = archive.members[i].body]_vars

-----------------------------------------------------------------------------
(* File modes of an unpacked theme. *)

Mode755 == 493
Mode644 == 420
S_IXUSR == 64
AnyExecute == 73

ModeBits == 12

RECURSIVE BitAnd(_, _, _)
BitAnd(a, b, k) ==
    IF k = 0 THEN 0
    ELSE 2 * BitAnd(a \div 2, b \div 2, k - 1) + (a % 2) * (b % 2)

BitOr(a, b) == a + b - BitAnd(a, b, ModeBits)

BitClear(a, b) == a - BitAnd(a, b, ModeBits)

(* Modes a member can carry in the archive: 0644, 0600, 0755, 0700, 0400,  *)
(* 0610 (execute for the group only), 0601 (execute for others only).      *)
ArchiveModes == {420, 384, 493, 448, 256, 392, 385}

(* Modes of a directory that tarfile creates without a mode of its own:    *)
(* 0777 less the umask (022 or 077).                                       *)
UmaskDirModes == {493, 448}

(* The mode tar.extract leaves on a regular file: the member's mode, which *)
(* tarfile's "data" filter first strips of the bits outside 0755, of every *)
(* execute bit when the owner has none, and extends by 0600 (384).  A      *)
(* symlink shows mode 0777 (511).                                          *)
extracted_file_mode(archive_mode, tar_filter) ==
    IF tar_filter = "fully_trusted" THEN archive_mode
    ELSE LET mode == BitAnd(archive_mode, Mode755, ModeBits)
         IN BitOr(IF BitAnd(mode, S_IXUSR, ModeBits) = 0
                  THEN BitClear(mode, AnyExecute) ELSE mode,
                  384)

(* Installer._fix_permissions on the entries below the theme directory. *)
fix_permissions(items) ==
    [i \in DOMAIN items |->
        IF items[i].kind = "symlink" THEN items[i]
        ELSE IF items[i].kind = "dir" THEN [items[i] EXCEPT !.mode = Mode755]
        ELSE IF BitAnd(items[i].mode, S_IXUSR, ModeBits) # 0
             THEN [items[i] EXCEPT !.mode = Mode755]
             ELSE [items[i] EXCEPT !.mode = Mode644]]

MaxEntries == 2

(* The theme directory as tar.extract leaves it. *)
InitExtracted ==
    /\ InitState
    /\ NothingMerged
    /\ NothingAsked
    /\ response = [official |-> [ok |-> TRUE, lines |-> <<>>],
                   community |-> [ok |-> TRUE, lines |-> <<>>]]
    /\ remote_themes = [outcome |-> "", themes |-> <<>>]
    /\ target_file = <<>>
    /\ patch_content = [pre |-> <<>>, post |-> <<>>]
    /\ original = <<>>
    /\ patched = [t \in Themes |-> 0]
    /\ \E tar_filter \in TarFilters :
          \E members \in [1..MaxEntries -> [kind : {"dir", "file", "symlink"},
                                             archive_mode : ArchiveModes]] :
             \E dir_mode \in UmaskDirModes :
                entries = [i \in 1..MaxEntries |->
                    [kind |-> members[i].kind,
                     archive_mode |-> members[i].archive_mode,
                     mode |-> IF members[i].kind = "symlink" THEN 511
                              ELSE IF members[i].kind = "file"
                              THEN extracted_file_mode(members[i].archive_mode, tar_filter)
                              ELSE IF tar_filter = "fully_trusted"
                              THEN members[i].archive_mode ELSE dir_mode]]

FixPermissions ==
    /\ entries' = fix_permissions(entries)
    /\ UNCHANGED <<response, remote_themes>>
    /\ UNCHANGED <<engineVars, patchVars, mergeVars, ignoreVars>>

SpecPermissions == InitExtracted /\ [][FixPermissions]_vars

(* C24: after the permission pass every directory has mode 0755, every     *)
(* regular file has 0755 if any execute bit was set on it in the archive   *)
(* and 0644 otherwise, and symlinks keep their mode.                       *)
C24_PermissionsNormalized ==
    [][FixPermissions
       => \A i \in DOMAIN entries :
             entries'[i].mode =
                 IF entries[i].kind = "symlink" THEN entries[i].mode
                 ELSE IF entries[i].kind = "dir" THEN Mode755
                 ELSE IF BitAnd(entries[i].archive_mode, AnyExecute, ModeBits) # 0
                 THEN Mode755 ELSE Mode644]_vars

-----------------------------------------------------------------------------
(* The remote theme lists.  A list is a text of lines, a line a sequence   *)
(* of words, a URL the sequence of its segments.                           *)

S_github == "github.com"

GithubBlobUrl == <<S_github, "o", "blob", "a">>
Urls == {GithubBlobUrl, <<"host", "a">>, <<"host", "b">>}

(* _convert_github_url: "/blob/" becomes "/raw/" in a github.com URL. *)
convert_github_url(url) ==
    IF (\E i \in DOMAIN url : url[i] = S_github)
       /\ (\E i \in 2..(Len(url) - 1) : url[i] = "blob")
    THEN [i \in DOMAIN url |-> IF i \in 2..(Len(url) - 1) /\ url[i] = "blob" THEN "raw" ELSE url[i]]
    ELSE url

FetchError == [ok |-> FALSE, lines |-> <<>>]

Fetched(lines) == [ok |-> TRUE, lines |-> lines]

(* _load_themes: a failed request gives no themes; otherwise every line    *)
(* that is not blank, not a comment and has two words or more gives the    *)
(* theme of its first word, a later line replacing an earlier one.         *)
RECURSIVE parse_lines(_, _, _)
parse_lines(lines, source_type, themes) ==
    IF lines = <<>> THEN themes
    ELSE LET parts == Head(lines)
         IN parse_lines(Tail(lines), source_type,
               IF parts = <<>> \/ parts[1] = "#" \/ Len(parts) < 2 THEN themes
               ELSE (parts[1] :> [name |-> parts[1], url |-> convert_github_url(parts[2]),
                                  source |-> source_type]) @@ themes)

load_themes(answer, source_type) ==
    IF ~answer.ok THEN <<>> ELSE parse_lines(answer.lines, source_type, <<>>)

(* The loop body of fetch_remote_themes for one loaded list. *)
merge_loaded(themes, loaded) ==
    [name \in DOMAIN themes \cup DOMAIN loaded |->
        IF name \in DOMAIN loaded
           /\ (name \notin DOMAIN themes \/ loaded[name].source = "official")
        THEN loaded[name] ELSE themes[name]]

RECURSIVE fetch_from(_, _, _)
fetch_from(sources, answers, themes) ==
    IF sources = <<>> THEN themes
    ELSE fetch_from(Tail(sources), answers,
                    merge_loaded(themes, load_themes(answers[Head(sources)], Head(sources))))

Sources == <<"official", "community">>

(* The list URLs that pawlette/constants.py defines, and the one           *)
(* fetch_remote_themes reads for a source.                                 *)
ListUrlConstants == {"THEMES_LIST_URL"}

ListUrlConstant(source_type) ==
    IF source_type = "official" THEN "OFFICIAL_THEMES_LIST_URL" ELSE "COMMUNITY_THEMES_LIST_URL"

(* fetch_remote_themes: building the list of sources reads both constants  *)
(* before anything is requested.                                           *)
fetch_remote_themes(answers) ==
    IF \A i \in DOMAIN Sources : ListUrlConstant(Sources[i]) \in ListUrlConstants
    THEN [outcome |-> "returned", themes |-> fetch_from(Sources, answers, <<>>)]
    ELSE [outcome |-> "AttributeError", themes |-> <<>>]

MaxLines == 2

ListLines ==
    {<<>>, <<"#", <<"host", "a">>, "A">>,
     <<"A", <<"host", "a">>>>, <<"A", GithubBlobUrl, "note">>, <<"B", <<"host", "b">>>>}

Answers == {FetchError} \cup {Fetched(lines) : lines \in UNION {[1..n -> ListLines] : n \in 0..MaxLines}}

FetchRemoteThemes ==
    /\ \E official \in Answers, community \in Answers :
          /\ response' = [official |-> official, community |-> community]
          /\ remote_themes' = fetch_remote_themes(response')
    /\ UNCHANGED entries
    /\ UNCHANGED <<engineVars, patchVars, mergeVars, ignoreVars>>

SpecCatalog == Init /\ [][FetchRemoteThemes]_vars

Reverse(s) == [i \in DOMAIN s |-> s[Len(s) + 1 - i]]

(* C25: fetch_remote_themes returns the merged list: a theme name that     *)
(* both lists hold gets the official list's entry, in either fetch order;  *)
(* a list whose request failed counts as empty, and the result still holds *)
(* every entry of the other list.                                          *)
C25_OfficialWins ==
    [][FetchRemoteThemes
       => LET official == load_themes(response'.official, "official")
              community == load_themes(response'.community, "community")
              merged == remote_themes'.themes
          IN /\ remote_themes'.outcome = "returned"
             /\ \A name \in DOMAIN official \cap DOMAIN community :
                   /\ name \in DOMAIN merged /\ merged[name] = official[name]
                   /\ fetch_from(Reverse(Sources), response', <<>>)[name] = official[name]
             /\ ~response'.official.ok
                    => /\ official = <<>>
                       /\ \A name \in DOMAIN community :
                             name \in DOMAIN merged /\ merged[name] = community[name]
             /\ ~response'.community.ok
                    => /\ community = <<>>
                       /\ \A name \in DOMAIN official :
                             name \in DOMAIN merged /\ merged[name] = official[name]]_vars

-----------------------------------------------------------------------------
(* Switching branches when a git command of the save step fails.  _run_git *)
(* returns False for a command that failed; the command has then changed   *)
(* nothing.                                                                *)

GitOutcomes == [add : BOOLEAN, commit : BOOLEAN]

(* _handle_uncommitted_changes: both results of _run_git are dropped. *)
handle_uncommitted_changes_run(G, ts, git_ok) ==
    LET committed(G1) == IF git_ok.commit THEN GitCommit(G1, UserSubject(ts), FALSE) ELSE G1
    IN IF has_uncommitted_changes(G)
       THEN committed(IF git_ok.add THEN GitAddAll(G) ELSE G)
       ELSE G

(* _create_or_switch_branch; forced: the checkout was retried with --force. *)
create_or_switch_branch_run(G, t, ts, git_ok) ==
    LET switch(G1) ==
            IF ThemeBranch(t) \in DOMAIN G1.branches
            THEN LET or_force(soft) ==
                         IF soft.ok THEN soft @@ [forced |-> FALSE]
                         ELSE GitCheckout(G1, ThemeBranch(t), TRUE) @@ [forced |-> TRUE]
                 IN or_force(GitCheckout(G1, ThemeBranch(t), FALSE))
            ELSE GitCheckoutNew(G1, ThemeBranch(t), Main) @@ [forced |-> FALSE]
    IN switch(handle_uncommitted_changes_run(G, ts, git_ok))

(* apply_theme with the save step's git commands succeeding or failing. *)
apply_theme_run(G, t, ts, git_ok) ==
    IF ~get_theme(t)
    THEN [outcome |-> "ThemeNotFound", repo |-> G, version |-> versionFile[t]]
    ELSE LET new_version == get_theme_version_from_installed(t)
             current_version == get_saved_theme_version_in_branch(t)
             on_branch(G1, has_theme_commit) ==
                 IF current_version = new_version /\ has_theme_commit
                 THEN [outcome |-> "switched", repo |-> G1, version |-> versionFile[t]]
                 ELSE copy_and_commit(G1, t, current_version, new_version,
                                      has_theme_commit, ts)
             switched(sw) ==
                 IF ~sw.ok
                 THEN [outcome |-> "RuntimeError", repo |-> sw.repo,
                       version |-> versionFile[t]]
                 ELSE on_branch(sw.repo, has_theme_commit_in_branch(sw.repo, t))
         IN switched(create_or_switch_branch_run(G, t, ts, git_ok))

ApplyThemeRun(t, git_ok) ==
    /\ steps < MaxSteps
    /\ \E r \in {apply_theme_run(Repo, t, now, git_ok)} :
          /\ SetRepo(r.repo)
          /\ versionFile' = [versionFile EXCEPT ![t] = r.version]
          /\ Ran("apply_theme", t, r.outcome,
                 r.outcome # "ThemeNotFound" /\ has_uncommitted_changes(Repo))
    /\ trip' = NoTrip
    /\ UNCHANGED <<patchVars, installerVars, mergeVars, ignoreVars>>
    /\ UNCHANGED <<themesFolder, installed_themes, outsideWrites, now>>

NextForce ==
    \/ InstallTheme
    \/ Edit
    \/ \E t \in Themes, git_ok \in GitOutcomes : ApplyThemeRun(t, git_ok)

SpecForce == Init /\ [][NextForce]_vars

(* C26: whenever _create_or_switch_branch retries the checkout with        *)
(* --force, every modification of a tracked file is already in the tip     *)
(* commit of the branch being left, also when 'add -A' or the commit       *)
(* before it failed.                                                       *)
C26_ForceCheckoutSafe ==
    [][\A t \in Themes, git_ok \in GitOutcomes :
          (ApplyThemeRun(t, git_ok) /\ get_theme(t)
              /\ create_or_switch_branch_run(Repo, t, now, git_ok).forced)
          => \A p \in FILES :
                index[p] # Absent
                => commits'[branches'[head]].tree[p] = worktree[p]]_vars

-----------------------------------------------------------------------------
(* The branches after a version upgrade. *)

(* apply_theme(t) runs as an upgrade: t was applied before and the version *)
(* in <state>/t.version differs from the installed one.                    *)
Upgrade(t) ==
    /\ Did("apply_theme", t)
    /\ get_theme(t)
    /\ installed_themes[t].present
    /\ versionFile[t] # ""
    /\ AppliedBefore(t)
    /\ versionFile[t] # installed_themes[t].version

(* C27: on a version upgrade of T the backup branch's tip is the tip T had *)
(* before the upgrade (with the '[USER]' commit saved on it), and the new  *)
(* branch T starts from main's tip: it holds none of the old branch's own  *)
(* commits and ends with the commit 'Apply theme: T v<new>'.               *)
C27_UpgradeBranches ==
    [][\A t \in Themes :
          Upgrade(t)
          => LET backup == BackupBranch(t, versionFile[t], now)
                 new_tip == branches'[ThemeBranch(t)]
             IN /\ backup \in DOMAIN branches'
                /\ \/ branches'[backup] = branches[ThemeBranch(t)]
                   \/ /\ commits'[branches'[backup]].subject.kind = "user"
                      /\ commits'[branches'[backup]].parent = branches[ThemeBranch(t)]
                /\ commits'[new_tip].subject = ApplySubject(t, installed_themes[t].version)
                /\ commits'[new_tip].parent = branches'[Main]
                /\ Ancestors(commits', new_tip)
                       \cap (Ancestors(commits', branches'[backup])
                                \ Ancestors(commits', branches'[Main])) = {}]_vars

(* C28: every commit 'Apply theme: T v...' is created while HEAD is on     *)
(* branch T, and becomes that branch's tip: none lands on main, on another *)
(* theme's branch or on a backup branch, also when a rename or checkout of *)
(* the upgrade path fails.                                                 *)
C28_ApplyCommitOnOwnBranch ==
    [][\A c \in (Len(commits) + 1)..Len(commits') :
          commits'[c].subject.kind = "apply"
          => /\ head' = ThemeBranch(commits'[c].subject.theme)
             /\ \A b \in DOMAIN branches' :
                   c \in Ancestors(commits', branches'[b]) => b = head']_vars

-----------------------------------------------------------------------------
(* Patches of several themes in one file. *)

(* A file with the user's text and patches whose payloads end their line. *)
InitRegions ==
    /\ InitState
    /\ NothingFetched
    /\ NothingMerged
    /\ NothingAsked
    /\ target_file \in {<<Ch("o"), NL>>, <<Ch("o"), NL, Ch("o"), NL>>}
    /\ original = target_file
    /\ patch_content \in {c \in [pre : {<<>>, <<Ch("p"), NL>>}, post : {<<>>, <<Ch("q"), NL>>}] :
                            c.pre # <<>> \/ c.post # <<>>}
    /\ patched = [n \in RegionNames |-> 0]

NextRegions == \E theme_name \in RegionNames : ApplyPatch(theme_name)

SpecRegions == InitRegions /\ [][NextRegions]_vars

(* The markers of a text that name another theme than theme_name, and the  *)
(* user's text, in their order.                                            *)
OutsideOf(s, theme_name) ==
    SelectSeq(s, LAMBDA tok : IsUserText(tok) \/ (tok.tag # "char" /\ tok.arg # theme_name))

(* C29: apply_to_file for theme T removes or rewrites only regions whose   *)
(* theme name is exactly T: the regions of another theme, also one whose   *)
(* name starts with T or differs from T in letter case only, and the text  *)
(* between regions stay as they were.                                      *)
C29_OnlyOwnRegions ==
    [][\A theme_name \in RegionNames :
          ApplyPatch(theme_name)
          => OutsideOf(target_file', theme_name) = OutsideOf(target_file, theme_name)]_vars

-----------------------------------------------------------------------------
(* Cleaning a file of the patches of every theme. *)

(* The marker at position m stands first on its line. *)
FirstOnLine(s, m) == \E e \in 1..m : LineStart(s, e) /\ \A q \in e..(m - 1) : IsSpace(s[q])

(* ".*?$" after a marker at position m: the rest of its line. *)
RECURSIVE LineEnd(_, _)
LineEnd(s, m) == IF m + 1 > Len(s) \/ s[m + 1] = NL THEN m ELSE LineEnd(s, m + 1)

(* A match of the pattern of _clean_old_patches_from_file that starts at   *)
(* position i: a START marker of any theme first on its line, then the     *)
(* first END marker of the same PRE or POST kind that is first on its      *)
(* line, whatever theme it names, and the rest of that line.  The value is *)
(* the last position the match consumes, 0 when there is none.             *)
AnyBlockMatch(s, i) ==
    LET upto(j) ==
            IF j > Len(s) \/ s[j].tag \notin {"PRE", "POST"} \/ s[j].edge # "START" THEN 0
            ELSE LET ends == {m \in (j + 1)..Len(s) :
                                 /\ s[m].tag = s[j].tag /\ s[m].edge = "END"
                                 /\ FirstOnLine(s, m)}
                 IN IF ends = {} THEN 0
                    ELSE LineEnd(s, CHOOSE m \in ends : \A n \in ends : m <= n)
    IN IF LineStart(s, i) THEN upto(SkipSpace(s, i)) ELSE 0

RECURSIVE any_pattern_sub(_, _)
any_pattern_sub(s, i) ==
    LET from(x) == IF x # 0 THEN any_pattern_sub(s, x + 1)
                   ELSE <<s[i]>> \o any_pattern_sub(s, i + 1)
    IN IF i > Len(s) THEN <<>> ELSE from(AnyBlockMatch(s, i))

(* The loop over the lines: an empty line after an empty line is dropped. *)
RECURSIVE squeeze(_, _)
squeeze(lines, prev_empty) ==
    IF lines = <<>> THEN <<>>
    ELSE (IF Head(lines) = <<>> /\ prev_empty THEN <<>> ELSE <<Head(lines)>>)
             \o squeeze(Tail(lines), Head(lines) = <<>>)

RECURSIVE pop_empty(_)
pop_empty(lines) ==
    IF lines # <<>> /\ lines[Len(lines)] = <<>>
    THEN pop_empty(SubSeq(lines, 1, Len(lines) - 1))
    ELSE lines

(* _clean_old_patches_from_file on the text of an existing file. *)
clean_old_patches_from_file(content) ==
    LET final(text) == IF text # <<>> /\ text[Len(text)] # NL THEN text \o <<NL>> ELSE text
    IN final(Join(pop_empty(squeeze(Split(any_pattern_sub(content, 1), NL), FALSE)), <<NL>>))

CleanOldPatches ==
    /\ target_file' = clean_old_patches_from_file(target_file)
    /\ UNCHANGED <<patch_content, original, patched>>
    /\ UNCHANGED <<engineVars, installerVars, mergeVars, ignoreVars>>

NextClean ==
    \/ \E theme_name \in Themes : ApplyPatch(theme_name)
    \/ CleanOldPatches

SpecClean == InitPatch /\ [][NextClean]_vars

(* A region of theme n: its START marker and, after it, its END marker of  *)
(* the same PRE or POST kind.                                              *)
HasRegion(s, n) ==
    \E i, j \in DOMAIN s :
        /\ i < j
        /\ s[i].tag \in {"PRE", "POST"} /\ s[i].edge = "START" /\ s[i].arg = n
        /\ s[j] = Marker(s[i].tag, "END", n)

(* C30: a PRE-START is closed only by the PRE-END of the same theme and a  *)
(* POST-START only by the POST-END of the same theme: after the cleanup no *)
(* complete region of any theme is left, and the cleanup and a patch both  *)
(* keep every line outside the regions, in order.                          *)
C30_MarkerPairing ==
    [][/\ CleanOldPatches => \A n \in Themes : ~HasRegion(target_file', n)
       /\ (CleanOldPatches \/ \E theme_name \in Themes : ApplyPatch(theme_name))
              => SelectSeq(target_file', IsUserText) = SelectSeq(target_file, IsUserText)]_vars

-----------------------------------------------------------------------------
(* MergeCopyHandler._merge_and_patch on one directory that holds files     *)
(* only.  A JSON value is a scalar or an object: key -> JSON value.        *)

Atom(a) == [obj |-> FALSE, atom |-> a, items |-> <<>>]
Obj(f) == [obj |-> TRUE, atom |-> "", items |-> f]

(* A file of the target directory: whether it exists, whether its text is  *)
(* JSON and of which value, and the payloads of the marker blocks it holds. *)
Missing == [exists |-> FALSE, parses |-> FALSE, val |-> Atom(""), pre |-> "", post |-> ""]
TextFile(t) == [exists |-> TRUE, parses |-> FALSE, val |-> Atom(t), pre |-> "", post |-> ""]
JsonFile(v) == [exists |-> TRUE, parses |-> TRUE, val |-> v, pre |-> "", post |-> ""]

(* A field of a patch record: None, a payload text, or parsed JSON. *)
None == [some |-> FALSE, text |-> "", val |-> Atom("")]
Payload(t) == [some |-> TRUE, text |-> t, val |-> Atom("")]
Parsed(v) == [some |-> TRUE, text |-> "", val |-> v]

(* An update that does not descend into objects. *)
merge_dicts_shallow(base, override) ==
    [k \in DOMAIN base \cup DOMAIN override |->
        IF k \in DOMAIN override THEN override[k] ELSE base[k]]

(* dict(base) updated key by key from override, lines 69-77. *)
RECURSIVE merge_dicts(_, _)
merge_dicts(base, override) ==
    [k \in DOMAIN base \cup DOMAIN override |->
        IF k \notin DOMAIN override THEN base[k]
        ELSE IF k \in DOMAIN base /\ base[k].obj /\ override[k].obj
        THEN Obj(merge_dicts(base[k].items, override[k].items))
        ELSE override[k]]

(* The first loop, lines 83-138, over the items in the order iterdir gives *)
(* them: st = [dst, patching, journal], patching in insertion order.       *)
Recorded(patching, patch_name) == \E i \in DOMAIN patching : patching[i].name = patch_name

SetField(patching, patch_name, field, value) ==
    IF Recorded(patching, patch_name)
    THEN [i \in DOMAIN patching |->
             IF patching[i].name = patch_name
             THEN [patching[i] EXCEPT ![field] = value] ELSE patching[i]]
    ELSE Append(patching,
                [[name |-> patch_name, pre |-> None, post |-> None, merge |-> None]
                    EXCEPT ![field] = value])

Event(op, name) == [op |-> op, name |-> name]

scan_item(src, st, item) ==
    IF Suffix(item) = S_prepaw
    THEN [st EXCEPT !.patching = SetField(@, WithoutSuffix(item), "pre", Payload(src[item].val.atom))]
    ELSE IF Suffix(item) = S_postpaw
    THEN [st EXCEPT !.patching = SetField(@, WithoutSuffix(item), "post", Payload(src[item].val.atom))]
    ELSE IF Suffix(item) = S_jsonpaw
    THEN IF ~src[item].parses
         THEN [st EXCEPT !.journal = Append(@, Event("invalid", item))]
         ELSE [st EXCEPT !.patching = SetField(@, WithoutSuffix(item), "merge", Parsed(src[item].val))]
    ELSE [st EXCEPT !.dst = [@ EXCEPT ![item] = src[item]],
                    !.journal = Append(@, Event("smart_copy", item))]

RECURSIVE scan(_, _, _)
scan(src, st, order) ==
    IF order = <<>> THEN st
    ELSE scan(src, scan_item(src, st, Head(order)), Tail(order))

(* Lines 146-167: the JSON merge of one record. *)
json_merge(st, p) ==
    LET current == st.dst[p.name]
    IN IF ~p.merge.some THEN st
       ELSE IF ~(current.parses /\ current.pre = "" /\ current.post = "" /\ current.val.obj)
       THEN [st EXCEPT !.journal = Append(@, Event("cannot_merge", p.name))]
       ELSE IF p.merge.val.obj
       THEN [st EXCEPT !.dst = [@ EXCEPT ![p.name] =
                                    JsonFile(Obj(merge_dicts(current.val.items, p.merge.val.items)))],
                       !.journal = Append(@, Event("merge", p.name))]
       ELSE [st EXCEPT !.journal = Append(@, Event("not_an_object", p.name))]

(* Lines 170-178: PatchEngine.apply_to_file drops the theme's blocks and   *)
(* writes those it was given a payload for.                                *)
marker_patch(st, p) ==
    IF p.pre.text # "" \/ p.post.text # ""
    THEN [st EXCEPT !.dst = [@ EXCEPT ![p.name] =
                                 [@ EXCEPT !.pre = p.pre.text, !.post = p.post.text]],
                    !.journal = Append(@, Event("patch", p.name))]
    ELSE st

(* The second loop, lines 140-178. *)
RECURSIVE apply_records(_, _)
apply_records(st, patching) ==
    IF patching = <<>> THEN st
    ELSE apply_records(
             IF ~st.dst[Head(patching).name].exists
             THEN [st EXCEPT !.journal = Append(@, Event("no_original", Head(patching).name))]
             ELSE marker_patch(json_merge(st, Head(patching)), Head(patching)),
             Tail(patching))

(* The two loops the other way round: the records are applied to the      *)
(* directory as it was found, and the plain files are copied afterwards.   *)
merge_and_patch_copy_last(src, dst, order) ==
    LET scanned(st) ==
            LET patchd == apply_records([dst |-> dst, patching |-> <<>>, journal |-> <<>>],
                                        st.patching)
            IN [dst |-> [n \in DOMAIN dst |->
                            IF n \in DOMAIN src THEN src[n] ELSE patchd.dst[n]],
                patching |-> <<>>,
                journal |-> patchd.journal \o st.journal]
    IN scanned(scan(src, [dst |-> dst, patching |-> <<>>, journal |-> <<>>], order))

merge_and_patch(src, dst, order) ==
    LET scanned(st) == apply_records([st EXCEPT !.patching = <<>>], st.patching)
    IN scanned(scan(src, [dst |-> dst, patching |-> <<>>, journal |-> <<>>], order))

(* The orders iterdir can list a set of items in. *)
RECURSIVE Orders(_)
Orders(S) ==
    IF S = {} THEN {<<>>}
    ELSE UNION {{<<item>> \o rest : rest \in Orders(S \ {item})} : item \in S}

MergeAndPatch ==
    /\ \E order \in Orders(DOMAIN src_dir) :
          \E r \in {merge_and_patch(src_dir, dst_dir, order)} :
             /\ dst_dir' = r.dst
             /\ journal' = r.journal
    /\ UNCHANGED src_dir
    /\ UNCHANGED <<engineVars, patchVars, installerVars, ignoreVars>>

(* A theme directory with a file k.conf, its three patch files and a patch *)
(* for settings.ini, each of them there or not; a target directory where   *)
(* each of the two files is missing, some text, or a JSON object.          *)
TargetNames == {S_kconf, S_settings_ini}

ItemChoices ==
    (S_kconf :> {JsonFile(Obj([k \in {"a"} |-> Atom("1")])), TextFile("t")}) @@
    (S_kconf \o S_prepaw :> {TextFile("p"), TextFile("")}) @@
    (S_kconf_postpaw :> {TextFile("q")}) @@
    (S_kconf \o S_jsonpaw :>
        {JsonFile(Obj([k \in {"b"} |-> Atom("2")])), JsonFile(Atom("1")), TextFile("{")}) @@
    (S_settings_ini \o S_postpaw :> {TextFile("q")})

SourceDirs ==
    UNION {{src \in [D -> UNION {ItemChoices[item] : item \in D}] :
               \A item \in D : src[item] \in ItemChoices[item]} :
           D \in SUBSET DOMAIN ItemChoices}

TargetDirs ==
    {dst \in [TargetNames -> {Missing, TextFile("u"), JsonFile(Obj([k \in {"a"} |-> Atom("2")]))}] :
        ~dst[S_settings_ini].parses}

InitMerge ==
    /\ InitState
    /\ NothingFetched
    /\ target_file = <<>>
    /\ patch_content = [pre |-> <<>>, post |-> <<>>]
    /\ original = <<>>
    /\ patched = [t \in Themes |-> 0]
    /\ src_dir \in SourceDirs
    /\ dst_dir \in TargetDirs
    /\ journal = <<>>
    /\ NothingAsked

SpecMerge == InitMerge /\ [][MergeAndPatch]_vars

PatchItems(src, n) ==
    {item \in DOMAIN src : Suffix(item) \in {S_prepaw, S_postpaw, S_jsonpaw} /\ WithoutSuffix(item) = n}

Applying == {"merge", "patch", "no_original", "cannot_merge", "not_an_object"}

(* C31: in one directory every plain file is copied before any patch       *)
(* record is applied, a record's JSON merge comes before its marker patch, *)
(* and a patch whose target is missing after the copies is skipped and     *)
(* its target is not created.                                              *)
C31_CopyMergePatch ==
    [][MergeAndPatch =>
          /\ \A i, k \in DOMAIN journal' :
                 journal'[i].op = "smart_copy" /\ journal'[k].op \in Applying => i < k
          /\ \A n \in TargetNames :
                 /\ \A i, k \in DOMAIN journal' :
                        journal'[i] = Event("merge", n) /\ journal'[k] = Event("patch", n)
                        => i < k
                 /\ (n \in DOMAIN src_dir /\ (n \o S_prepaw) \in DOMAIN src_dir
                        /\ src_dir[n \o S_prepaw].val.atom # "")
                    => /\ dst_dir'[n].pre = src_dir[n \o S_prepaw].val.atom
                       /\ dst_dir'[n].val \in
                              {src_dir[n].val} \cup
                              {Obj(merge_dicts(src_dir[n].val.items, src_dir[item].val.items)) :
                                  item \in PatchItems(src_dir, n)}
                 /\ (n \notin DOMAIN src_dir /\ ~dst_dir[n].exists)
                    => dst_dir'[n] = Missing]_vars

C31_Witness ==
    /\ \E i, j, k, m \in DOMAIN journal :
           /\ journal[i] = Event("smart_copy", S_kconf)
           /\ journal[j] = Event("merge", S_kconf)
           /\ journal[k] = Event("patch", S_kconf)
           /\ journal[m] = Event("no_original", S_settings_ini)
    /\ ~dst_dir[S_settings_ini].exists

-----------------------------------------------------------------------------
(* The JSON merge on its own: a directory that holds k.conf.jsonpaw only,  *)
(* over a target k.conf.  Objects have the keys a and b, whose values are  *)
(* scalars or objects with the keys x and y.                               *)

Scalars == {Atom("1"), Atom("2")}

InnerObjects == {Obj(f) : f \in UNION {[S -> Scalars] : S \in SUBSET {"x", "y"}}}

Objects == {Obj(f) : f \in UNION {[S -> Scalars \cup InnerObjects] : S \in SUBSET {"a", "b"}}}

InitJson ==
    /\ InitState
    /\ NothingFetched
    /\ target_file = <<>>
    /\ patch_content = [pre |-> <<>>, post |-> <<>>]
    /\ original = <<>>
    /\ patched = [t \in Themes |-> 0]
    /\ \E overlay \in Objects \cup {Atom("1")} :
          src_dir = (S_kconf \o S_jsonpaw :> JsonFile(overlay))
    /\ \E current \in {JsonFile(v) : v \in Objects \cup {Atom("1")}} \cup {TextFile("u")} :
          dst_dir = (S_kconf :> current) @@ (S_settings_ini :> Missing)
    /\ journal = <<>>
    /\ NothingAsked

SpecJson == InitJson /\ [][MergeAndPatch]_vars

(* What the claim says of a merged object r, given the target b and the    *)
(* overlay o, at one level.                                                *)
KeepsAndOverrides(b, o, r) ==
    /\ r.obj
    /\ DOMAIN r.items = DOMAIN b.items \cup DOMAIN o.items
    /\ \A k \in DOMAIN b.items \ DOMAIN o.items : r.items[k] = b.items[k]
    /\ \A k \in DOMAIN o.items : ~o.items[k].obj => r.items[k] = o.items[k]

(* C40: the JSON merge keeps every key of the target the overlay lacks,    *)
(* lets every scalar of the overlay override, merges objects present in    *)
(* both recursively, changes nothing when the same overlay is merged a     *)
(* second time, and leaves a target that is no JSON object as it is.       *)
C40_DeepMerge ==
    [][MergeAndPatch =>
          LET b == dst_dir[S_kconf]
              o == src_dir[S_kconf \o S_jsonpaw].val
              r == dst_dir'[S_kconf]
          IN IF b.parses /\ b.val.obj /\ o.obj
             THEN /\ r.parses
                  /\ KeepsAndOverrides(b.val, o, r.val)
                  /\ \A k \in DOMAIN b.val.items \cap DOMAIN o.items :
                        b.val.items[k].obj /\ o.items[k].obj
                        => KeepsAndOverrides(b.val.items[k], o.items[k], r.val.items[k])
                  /\ Event("merge", S_kconf) \in {journal[i] : i \in DOMAIN journal}
                        => r = b
             ELSE r = b]_vars

C40_Witness ==
    /\ Event("merge", S_kconf) \in {journal[i] : i \in DOMAIN journal}
    /\ src_dir[S_kconf \o S_jsonpaw].val.items = [k \in {"a"} |-> Obj([j \in {"y"} |-> Atom("2")])]
    /\ dst_dir[S_kconf].val.items =
           [k \in {"a", "b"} |->
               IF k = "a" THEN Obj([j \in {"x", "y"} |-> IF j = "x" THEN Atom("1") ELSE Atom("2")])
               ELSE Atom("1")]

-----------------------------------------------------------------------------
(* Branch T holds a commit "Apply theme: T ..." after the step. *)
HasApplyCommit(t) ==
    /\ ThemeBranch(t) \in DOMAIN branches'
    /\ \E c \in Ancestors(commits', branches'[ThemeBranch(t)]) :
          commits'[c].subject.kind = "apply" /\ commits'[c].subject.theme = t

(* C33: after the first apply_theme(T) that returns normally, branch T     *)
(* exists, HEAD is on it and its log holds an "Apply theme: T" commit,     *)
(* also when the work-tree already held the theme's files.                 *)
C33_FirstApplyCommits ==
    [][\A t \in Themes :
          (/\ Did("apply_theme", t)
           /\ last'.outcome \in {"applied", "switched"}
           /\ ThemeBranch(t) \notin DOMAIN branches)
          => /\ head' = ThemeBranch(t)
             /\ HasApplyCommit(t)]_vars

-----------------------------------------------------------------------------
(* The in-process matcher and git's exclude rules, asked about one path.   *)

(* Relative paths of regular files, up to three components deep. *)
Components == {S_kitty, S_cache, S_kconf, S_mozilla, S_ds_store, S_xlog}

RelPaths == UNION {[1..n -> Components] : n \in 1..3}

IsFileIgnored ==
    /\ \E path \in RelPaths :
          /\ query' = path
          /\ verdict' =
                [ignored |-> is_file_ignored(path),
                 matched |-> {k \in 1..Len(ignored_patterns) :
                                 matches_pattern(Join(path, <<"/">>), ignored_patterns[k])},
                 excluded |-> Excluded(create_git_exclude_file, path)]
    /\ UNCHANGED <<engineVars, patchVars, installerVars, mergeVars>>

SpecIgnore == Init /\ [][IsFileIgnored]_vars

(* The patterns of the form "**/X/" and their X. *)
StarStarDir(k) ==
    /\ StartsWith(ignored_patterns[k], <<"*", "*", "/">>)
    /\ EndsWith(ignored_patterns[k], <<"/">>)

DirName(k) == SubSeq(ignored_patterns[k], 4, Len(ignored_patterns[k]) - 1)

(* C34: a pattern "**/X/" matches a path exactly when one of the path's    *)
(* directories is named X; a regular file named X does not match.          *)
C34_DirectoryPattern ==
    [][IsFileIgnored =>
          \A k \in 1..Len(ignored_patterns) :
              StarStarDir(k)
              => (k \in verdict'.matched
                    <=> \E i \in 1..(Len(query') - 1) : query'[i] = DirName(k))]_vars

(* C35: _is_file_ignored says of every path what git's exclude rules say.  *)
C35_SameAsGit ==
    [][IsFileIgnored => verdict'.ignored = verdict'.excluded]_vars

-----------------------------------------------------------------------------
(* C36: get_user_changes_info is a query: whatever theme name it is given, *)
(* HEAD, the branches, their tips and the work-tree stay as they were.     *)
C36_UserChangesReadOnly ==
    [][\A t \in Themes :
          Did("get_user_changes_info", t)
          => /\ head' = head
             /\ branches' = branches
             /\ worktree' = worktree]_vars

-----------------------------------------------------------------------------
(* C37: when apply_theme(T) returns normally, HEAD is on branch T and      *)
(* <state>/T.version holds the version the manifest records for T, or      *)
(* "unknown" without a record; the shortcut for a theme that is up to date *)
(* leaves the version file as it was.                                      *)
C37_VersionFileMatchesManifest ==
    [][\A t \in Themes :
          (Did("apply_theme", t) /\ last'.outcome \in {"applied", "switched"})
          => /\ head' = ThemeBranch(t)
             /\ versionFile'[t] = get_theme_version_from_installed(t)
             /\ last'.outcome = "switched" => versionFile'[t] = versionFile[t]]_vars

-----------------------------------------------------------------------------
(* Pruning with a third theme installed whose name, A-d, starts with "A-". *)

S_main == <<"m", "a", "i", "n">>
S_backup == <<"-", "b", "a", "c", "k", "u", "p", "-">>

(* A branch's name as git holds it. *)
BranchName(b) ==
    IF b.kind = "main" THEN S_main
    ELSE IF b.kind = "theme" THEN ThemeChars(b.theme)
    ELSE BackupName(b)

(* delete_backup_branch(branch_name), lines 909-916. *)
delete_backup_branch(G, b) ==
    IF ~Contains(BranchName(b), S_backup) THEN [ok |-> FALSE, repo |-> G]
    ELSE GitBranchDelete(G, b)

DeleteBackupBranch(b) ==
    /\ steps < MaxSteps
    /\ SetRepo(delete_backup_branch(Repo, b).repo)
    /\ Ran("delete_backup_branch", "", "", FALSE)
    /\ trip' = NoTrip
    /\ UNCHANGED <<patchVars, installerVars, mergeVars, ignoreVars>>
    /\ UNCHANGED <<versionFile, themesFolder, installed_themes, outsideWrites, now>>

(* The repository after themes A and A-d were applied and upgraded some    *)
(* times: both theme branches, and any of the backup branches the upgrades *)
(* can have left.                                                          *)
BackupCandidates ==
    {BackupBranch(t, v, ts) : t \in {"A", "A-d"}, v \in Versions, ts \in 0..MaxTime}

InitPrune ==
    /\ commits = <<[parent |-> 0, subject |-> InitialSubject, tree |-> EmptyTree],
                   [parent |-> 1, subject |-> ApplySubject("A", "1.0"), tree |-> EmptyTree],
                   [parent |-> 1, subject |-> ApplySubject("A-d", "1.0"), tree |-> EmptyTree]>>
    /\ \E backups \in SUBSET BackupCandidates :
          branches = [b \in {Main, ThemeBranch("A"), ThemeBranch("A-d")} \cup backups |->
                         IF b.kind = "main" THEN 1 ELSE IF b.theme = "A" THEN 2 ELSE 3]
    /\ head \in {Main, ThemeBranch("A"), ThemeBranch("A-d")}
    /\ index = EmptyTree
    /\ worktree = EmptyTree
    /\ versionFile = [t \in Themes |-> IF t = "A" THEN "1.0" ELSE ""]
    /\ themesFolder = [t \in Themes |-> [exists |-> FALSE, files |-> NoFiles]]
    /\ installed_themes = [t \in Themes |-> NotInstalled]
    /\ outsideWrites = {}
    /\ now = 0
    /\ last = [op |-> "init", arg |-> "", outcome |-> "", head0 |-> Main, saved |-> FALSE]
    /\ trip = NoTrip
    /\ steps = 0
    /\ NothingFetched
    /\ NothingMerged
    /\ NothingAsked
    /\ target_file = <<>>
    /\ patch_content = [pre |-> <<>>, post |-> <<>>]
    /\ original = <<>>
    /\ patched = [t \in Themes |-> 0]

NextPrune ==
    \/ \E keep_last \in KeepLast : CleanupOldBackups("A", keep_last)
    \/ \E b \in DOMAIN branches : DeleteBackupBranch(b)

SpecPrune == InitPrune /\ [][NextPrune]_vars

(* C38: cleanup_old_backups(T, N) and delete_backup_branch delete nothing  *)
(* but backup branches that are not checked out, and the cleanup only      *)
(* those of theme T, not those of a theme whose name starts with "T-".     *)
C38_OnlyOwnBackups ==
    [][/\ \A keep_last \in KeepLast :
             CleanupOldBackups("A", keep_last)
             => \A b \in DOMAIN branches \ DOMAIN branches' :
                   b.kind = "backup" /\ b.theme = "A" /\ b # head
       /\ \A b \in DOMAIN branches :
             DeleteBackupBranch(b)
             => \A x \in DOMAIN branches \ DOMAIN branches' :
                   x = b /\ x.kind = "backup" /\ x # head]_vars

-----------------------------------------------------------------------------
(* Upgrades of theme A between the user's edits, restores and cleanups. *)
NextImmutable ==
    \/ InstallUpgrade
    \/ \E t \in {"A"} : ApplyTheme(t)
    \/ \E c \in {Absent, [body |-> "u", marks |-> worktree[F_conf].marks]} : UserEdit(F_conf, c)
    \/ RestoreOriginal
    \/ \E c \in DOMAIN commits : RestoreUserCommit("A", c)
    \/ CleanupIgnoredFiles

SpecImmutable == Init /\ [][NextImmutable]_vars

-----------------------------------------------------------------------------
(* A theme of two applications, one of which fails to apply. *)

(* apply_for_all_configs where self.apply raises, before it writes, for    *)
(* the application directories in raises: the exception is caught and the  *)
(* loop goes on with the next directory.                                   *)
apply_for_all_configs_run(W, t, raises) ==
    LET files == themesFolder[t].files
        apply_each(targets) ==
            LET Copies(p) == {m \in DOMAIN files :
                    /\ targets[m].under /\ targets[m].plain /\ targets[m].dst = p
                    /\ m[2] \notin raises}
                Patches(p) == {m \in DOMAIN files :
                    /\ targets[m].under /\ targets[m].patch /\ targets[m].dst = p
                    /\ m[2] \notin raises}
                patch(copied) ==
                    [p \in FILES |->
                        IF copied[p] # Absent /\ Patches(p) # {}
                        THEN apply_to_file(t, copied[p])
                        ELSE copied[p]]
            IN patch([p \in FILES |->
                         IF Copies(p) # {}
                         THEN smart_copy(files[CHOOSE m \in Copies(p) : TRUE])
                         ELSE W[p]])
    IN apply_each(Targets)

(* apply_theme past the early return, with applications that raise. *)
copy_and_commit_run(G0, t, current_version, new_version, has_theme_commit, ts, raises) ==
    LET commit(G3) ==
            GitCommit(GitAddAll(GitAddFiles(G3, get_theme_files(G3.worktree, t))),
                      ApplySubject(t, new_version), FALSE)
        copy(G2) ==
            IF ~HasConfigsDir(t)
            THEN [outcome |-> "FileNotFoundError", repo |-> G2, version |-> versionFile[t]]
            ELSE [outcome |-> "applied",
                  repo |-> commit([G2 EXCEPT !.worktree =
                                      apply_for_all_configs_run(@, t, raises)]),
                  version |-> new_version]
        clean(G1) ==
            copy([G1 EXCEPT !.worktree =
                     clean_old_patches_from_theme_files(@, get_theme_files(@, t))])
    IN clean(IF /\ current_version # new_version
                /\ current_version # "unknown"
                /\ has_theme_commit
             THEN backup_and_recreate_branch(G0, t, current_version, ts)
             ELSE G0)

apply_theme_apps(G, t, ts, raises) ==
    IF ~get_theme(t)
    THEN [outcome |-> "ThemeNotFound", repo |-> G, version |-> versionFile[t]]
    ELSE LET new_version == get_theme_version_from_installed(t)
             current_version == get_saved_theme_version_in_branch(t)
             on_branch(G1, has_theme_commit) ==
                 IF current_version = new_version /\ has_theme_commit
                 THEN [outcome |-> "switched", repo |-> G1, version |-> versionFile[t]]
                 ELSE copy_and_commit_run(G1, t, current_version, new_version,
                                          has_theme_commit, ts, raises)
             switched(sw) ==
                 IF ~sw.ok
                 THEN [outcome |-> "RuntimeError", repo |-> sw.repo,
                       version |-> versionFile[t]]
                 ELSE on_branch(sw.repo, has_theme_commit_in_branch(sw.repo, t))
         IN switched(create_or_switch_branch(G, t, ts))

ApplyThemeApps(t, raises) ==
    /\ steps < MaxSteps
    /\ \E r \in {apply_theme_apps(Repo, t, now, raises)} :
          /\ SetRepo(r.repo)
          /\ versionFile' = [versionFile EXCEPT ![t] = r.version]
          /\ Ran("apply_theme", t, r.outcome,
                 r.outcome # "ThemeNotFound" /\ has_uncommitted_changes(Repo))
    /\ trip' = NoTrip
    /\ UNCHANGED <<patchVars, installerVars, mergeVars, ignoreVars>>
    /\ UNCHANGED <<themesFolder, installed_themes, outsideWrites, now>>

InstallTwoApps(tar_filter) ==
    /\ steps < MaxSteps
    /\ \E r \in {TwoAppResult[tar_filter]} :
          /\ themesFolder' = [themesFolder EXCEPT ![r.theme] = r.folder]
          /\ installed_themes' = [installed_themes EXCEPT ![r.theme] =
                                     [present |-> TRUE, version |-> r.version,
                                      source |-> "local"]]
          /\ outsideWrites' = outsideWrites \cup r.outside
          /\ Ran("install_theme", r.theme, r.outcome, FALSE)
    /\ trip' = NoTrip
    /\ UNCHANGED <<patchVars, installerVars, mergeVars, ignoreVars>>
    /\ UNCHANGED <<commits, branches, head, index, worktree, versionFile, now>>

NextApps ==
    \/ \E tar_filter \in TarFilters : InstallTwoApps(tar_filter)
    \/ \E tar_filter \in TarFilters : Install(create_tarball("B", "1.0"), tar_filter)
    \/ Edit
    \/ \E raises \in SUBSET {S_kitty, S_gtk3_d} : ApplyThemeApps("B", raises)
    \/ RestoreOriginal

SpecApps == Init /\ [][NextApps]_vars

(* The other applications' files are in place: every plain file of an      *)
(* application directory that did not raise is at its target.              *)
OthersApplied(t, raises) ==
    LET in_place(targets) ==
            \A m \in ThemeMembers(t) :
                (/\ targets[m].under /\ targets[m].plain /\ m[2] \notin raises
                 /\ targets[m].dst \in FILES)
                => worktree'[targets[m].dst].body
                       = smart_copy(themesFolder[t].files[m]).body
    IN in_place(Targets)

(* C32: when applying one configs/<app> directory raises, the other        *)
(* application directories of the theme are still applied, and apply_theme *)
(* still writes the version file and makes the commit "Apply theme: T".    *)
C32_PerAppIsolation ==
    [][\A t \in Themes, raises \in SUBSET {S_kitty, S_gtk3_d} :
          (/\ ApplyThemeApps(t, raises)
           /\ raises # {}
           /\ last'.outcome = "applied")
          => /\ OthersApplied(t, raises)
             /\ versionFile'[t] = get_theme_version_from_installed(t)
             /\ commits'[branches'[head']].subject
                    = ApplySubject(t, get_theme_version_from_installed(t))
             /\ branches'[head'] \notin DOMAIN commits]_vars

====
